---- MODULE Spec2Model ----
(***************************************************************************)
(* Session Store (AuthManager) and Resource Gateway (SDKManager) of the    *)
(* workshop build, as a state machine.                                     *)
(*                                                                         *)
(* AuthManager.authenticate is an async function with one await (the       *)
(* remote worlds.get()).  A call is therefore two steps: the part up to    *)
(* the await, and the part that resumes when the remote answers.  Several  *)
(* calls can be suspended at their await at the same time.                 *)
(***************************************************************************)
EXTENDS Integers, Sequences, FiniteSets, Bags, TLC

(***************************************************************************)
(* Bounds of the model.                                                    *)
(***************************************************************************)
\* authenticate()/tryAutoAuth() calls suspended at the same time
MaxCalls == 2
\* length of authChangeCallbacks
MaxListeners == 2
\* Date.now() values written with the credentials
MaxTime == 1

(***************************************************************************)
(* Values.                                                                 *)
(***************************************************************************)
\* null (clients, worlds, credentials, a remote answer without a world)
Null == [tag |-> "null"]

\* what a caller can pass as apiKey / apiPin ("" is the empty input)
Keys == {"", "k1", "k2"}
Pins == {"", "p1"}

\* new OnlyWorldsClient({apiKey, apiPin})
OnlyWorldsClient(apiKey, apiPin) ==
  [tag |-> "client", apiKey |-> apiKey, apiPin |-> apiPin]

\* what the remote worlds.get() can do: resolve with a world, resolve with no
\* world, reject with an Error carrying a message, reject with a non-Error value
Worlds == {[tag |-> "world", id |-> "w1"]}
Messages == {"timeout"}
Responses ==
  Worlds \cup {Null}
    \cup {[tag |-> "Error", message |-> m] : m \in Messages}
    \cup {[tag |-> "thrown"]}

\* Date.now()
Timestamps == 1..MaxTime

(***************************************************************************)
(* localStorage: the string stored under STORAGE_KEY, or nothing.  A       *)
(* string is kept as what it holds: JSON text of a value, or text that is  *)
(* not JSON.                                                               *)
(***************************************************************************)
Absent == [tag |-> "absent"]

JSONStringify(value) == [tag |-> "json", value |-> value]

\* JSON.parse: the value, or a SyntaxError for text that is not JSON
JSONParse(text) ==
  IF text.tag = "json" THEN [threw |-> FALSE, value |-> text.value]
  ELSE [threw |-> TRUE]

\* what another page load, or anything else writing the key, may have left
ForeignItems ==
  { Absent,
    [tag |-> "text", text |-> ""],
    [tag |-> "text", text |-> "{not json"],
    JSONStringify(Null),
    JSONStringify([apiKey |-> "k1"]),
    JSONStringify([apiKey |-> "", apiPin |-> "p1"]) }

\* !obj.field of a parsed object: the field is missing or the empty string
Falsy(obj, field) == field \notin DOMAIN obj \/ obj[field] = ""

(***************************************************************************)
(* AuthManager: pure parts.                                                *)
(***************************************************************************)
\* new AuthError(message, code)
AuthError(message, code) == [tag |-> "AuthError", code |-> code, message |-> message]

\* a slip: only the key is checked
CredentialsMissing_KeyOnly(apiKey, apiPin) == apiKey = ""

\* !apiKey || !apiPin
CredentialsMissing(apiKey, apiPin) == apiKey = "" \/ apiPin = ""

\* a slip: the check of the remote's answer is left out
NoWorld_Never(world) == FALSE

\* !world
NoWorld(world) == world = Null

\* a slip: the flag is not raised
NewSession_Unflagged(client, world, apiKey, apiPin) ==
  [ isAuthenticated |-> FALSE,
    client |-> client,
    world |-> world,
    credentials |-> [apiKey |-> apiKey, apiPin |-> apiPin] ]

\* the state authenticate() assigns on success
NewSession(client, world, apiKey, apiPin) ==
  [ isAuthenticated |-> TRUE,
    client |-> client,
    world |-> world,
    credentials |-> [apiKey |-> apiKey, apiPin |-> apiPin] ]

\* the state clearAuth() assigns (and the state after construction)
ClearAuth ==
  [ isAuthenticated |-> FALSE,
    client |-> Null,
    world |-> Null,
    credentials |-> Null ]

NotAuthenticated ==
  AuthError("Not authenticated. Call authenticate() first", "INVALID_CREDENTIALS")

\* getClient(): the client, or the AuthError it throws
GetClient(st) ==
  IF st.client = Null \/ ~st.isAuthenticated THEN NotAuthenticated ELSE st.client

\* getWorld(): the world, or the AuthError it throws
GetWorld(st) ==
  IF st.world = Null \/ ~st.isAuthenticated THEN NotAuthenticated ELSE st.world

\* isAuthenticated()
IsAuthenticated(st) == st.isAuthenticated

\* the catch block of authenticate(): an AuthError is rethrown, anything else
\* is wrapped in a NETWORK_ERROR
CatchAuthenticate(error) ==
  IF error.tag = "AuthError" THEN error
  ELSE AuthError(
         "Authentication failed: "
           \o (IF error.tag = "Error" THEN error.message ELSE "Unknown error"),
         "NETWORK_ERROR")

\* a slip: no try around setItem, so its throw escapes
SaveCredentials_Throws(item, apiKey, apiPin, now, setOk) ==
  IF setOk
  THEN [ threw |-> FALSE,
         item |-> JSONStringify(
                    [apiKey |-> apiKey, apiPin |-> apiPin, timestamp |-> now]) ]
  ELSE [threw |-> TRUE, item |-> item]

\* saveCredentials(): setItem may throw (setOk = FALSE); the throw is caught
SaveCredentials(item, apiKey, apiPin, now, setOk) ==
  IF setOk
  THEN [ threw |-> FALSE,
         item |-> JSONStringify(
                    [apiKey |-> apiKey, apiPin |-> apiPin, timestamp |-> now]) ]
  ELSE [threw |-> FALSE, item |-> item]

\* a slip: only apiKey of the parsed value is checked
LoadCredentials_KeyOnly(item, getOk) ==
  IF ~getOk THEN Null
  ELSE IF item = Absent \/ (item.tag = "text" /\ item.text = "") THEN Null
  ELSE LET parsed == JSONParse(item) IN
       IF parsed.threw THEN Null
       ELSE IF parsed.value = Null THEN Null
       ELSE IF Falsy(parsed.value, "apiKey") THEN Null
       ELSE [ apiKey |-> parsed.value.apiKey,
              apiPin |-> IF "apiPin" \in DOMAIN parsed.value
                         THEN parsed.value.apiPin ELSE "" ]

\* loadCredentials(): getItem may throw (getOk = FALSE); every throw inside
\* (getItem, JSON.parse, a property of null) is caught and gives null
LoadCredentials(item, getOk) ==
  IF ~getOk THEN Null
  ELSE IF item = Absent \/ (item.tag = "text" /\ item.text = "") THEN Null
  ELSE LET parsed == JSONParse(item) IN
       IF parsed.threw THEN Null
       ELSE IF parsed.value = Null THEN Null
       ELSE IF Falsy(parsed.value, "apiKey") \/ Falsy(parsed.value, "apiPin")
            THEN Null
       ELSE [apiKey |-> parsed.value.apiKey, apiPin |-> parsed.value.apiPin]

\* a slip: the item is not removed
ClearStorage_Skips(item, removeOk) == item

\* clearStorage(): removeItem may throw (removeOk = FALSE); the throw is caught
ClearStorage(item, removeOk) == IF removeOk THEN Absent ELSE item

(***************************************************************************)
(* Listeners.  authChangeCallbacks holds functions; the model holds what   *)
(* each one does when called:                                              *)
(*   "sdk"     the listener the SDKManager constructor registers (the only *)
(*             one the repository registers); it returns normally          *)
(*   "throws"  a listener of a caller, which throws                        *)
(***************************************************************************)
AppListeners == {"throws"}

\* the listener of the SDKManager constructor, on the SDKManager inst
SDKListener(authenticated, st, inst) ==
  IF authenticated
  THEN LET c == GetClient(st) IN
       IF c.tag = "AuthError" THEN [threw |-> TRUE, instance |-> inst]
       ELSE [threw |-> FALSE, instance |-> [inst EXCEPT !.client = c]]
  ELSE [threw |-> FALSE, instance |-> [inst EXCEPT !.client = Null]]

\* callback(authenticated)
Callback(kind, authenticated, st, inst) ==
  CASE kind = "sdk" -> SDKListener(authenticated, st, inst)
    [] kind = "throws" -> [threw |-> TRUE, instance |-> inst]

\* one entry of the record of a notification: which registration was called,
\* with what argument, and the session state it could read then
Called(i, kind, authenticated, st, threw) ==
  [ index |-> i, kind |-> kind, authenticated |-> authenticated,
    seen |-> st, threw |-> threw ]

\* authChangeCallbacks.forEach(callback => { try {...} catch {...} }) from
\* registration i on; acc is what the earlier ones did
RECURSIVE ForEachCallback(_, _, _, _, _)
ForEachCallback(i, callbacks, authenticated, st, acc) ==
  IF i > Len(callbacks) THEN acc
  ELSE LET r == Callback(callbacks[i], authenticated, st, acc.instance) IN
       ForEachCallback(i + 1, callbacks, authenticated, st,
         [ threw |-> FALSE,
           log |-> Append(acc.log,
                     Called(i, callbacks[i], authenticated, st, r.threw)),
           instance |-> r.instance ])

\* a slip: the calls are not each in their own try, so the first throw ends
\* the loop and escapes
RECURSIVE ForEachCallback_NoTry(_, _, _, _, _)
ForEachCallback_NoTry(i, callbacks, authenticated, st, acc) ==
  IF i > Len(callbacks) \/ acc.threw THEN acc
  ELSE LET r == Callback(callbacks[i], authenticated, st, acc.instance) IN
       ForEachCallback_NoTry(i + 1, callbacks, authenticated, st,
         [ threw |-> r.threw,
           log |-> Append(acc.log,
                     Called(i, callbacks[i], authenticated, st, r.threw)),
           instance |-> r.instance ])

NotifyAuthChange_StopsAtThrow(st, callbacks, inst) ==
  ForEachCallback_NoTry(1, callbacks, st.isAuthenticated, st,
    [threw |-> FALSE, log |-> <<>>, instance |-> inst])

\* a slip: the listeners are told true whatever the state is
NotifyAuthChange_AlwaysTrue(st, callbacks, inst) ==
  ForEachCallback(1, callbacks, TRUE, st,
    [threw |-> FALSE, log |-> <<>>, instance |-> inst])

\* notifyAuthChange(): the calls made, in order, the SDKManager afterwards, and
\* whether a listener's throw escaped (never: each call is in its own try)
NotifyAuthChange(st, callbacks, inst) ==
  ForEachCallback(1, callbacks, st.isAuthenticated, st,
    [threw |-> FALSE, log |-> <<>>, instance |-> inst])

(***************************************************************************)
(* authenticate() after its await, as a function of the remote's answer.   *)
(***************************************************************************)
\* the outcome of a call that threw
Rejected(error, st, item, inst, log) ==
  [ outcome |-> "throw", error |-> error, state |-> st, storage |-> item,
    instance |-> inst, notified |-> log ]

\* the outcome of a call that returned true
Resolved(st, item, inst, log) ==
  [ outcome |-> "true", error |-> Null, state |-> st, storage |-> item,
    instance |-> inst, notified |-> log ]

\* the try block from `await client.worlds.get()` on, and the catch block
AuthenticateResume(item, callbacks, inst, apiKey, apiPin, response, now, setOk) ==
  IF response.tag \in {"Error", "thrown"}
  THEN \* the await throws
       Rejected(CatchAuthenticate(response), ClearAuth, item, inst, <<>>)
  ELSE IF NoWorld(response)
  THEN Rejected(
         CatchAuthenticate(
           AuthError("No world found. Create a world at onlyworlds.com first",
                     "NO_WORLD")),
         ClearAuth, item, inst, <<>>)
  ELSE LET st == NewSession(OnlyWorldsClient(apiKey, apiPin), response,
                            apiKey, apiPin)
           saved == SaveCredentials(item, apiKey, apiPin, now, setOk)
           told == NotifyAuthChange(st, callbacks, inst)
       IN  IF saved.threw
           THEN Rejected(CatchAuthenticate([tag |-> "Error", message |-> "setItem"]),
                         ClearAuth, saved.item, inst, <<>>)
           ELSE IF told.threw
           THEN Rejected(CatchAuthenticate([tag |-> "Error", message |-> "listener"]),
                         ClearAuth, saved.item, told.instance, told.log)
           ELSE Resolved(st, saved.item, told.instance, told.log)

(***************************************************************************)
(* SDKManager: pure parts.  inst is the SDKManager: [client |-> ...].      *)
(***************************************************************************)
Undefined == [tag |-> "undefined"]

\* the resources the SDK client carries (the ones the accessors read)
ClientResources ==
  { "characters", "creatures", "species", "families", "collectives",
    "institutions", "locations", "objects", "constructs", "abilities",
    "traits", "titles", "languages", "laws", "events", "narratives",
    "phenomena", "relations", "maps", "pins", "markers", "zones", "worlds" }

\* the type names a caller asks for: two element types of the SDK and a name
\* that is no element type
TypeNames == {"character", "species", "dragon"}

\* the accessors a caller reads
AccessorNames == {"characters", "species", "worlds"}

\* list/get/create/update/delete of a resource
Methods == {"list", "get", "create", "update", "delete"}

\* `${elementType}s`
ResourceName(elementType) == elementType \o "s"

\* client[name]
ResourceOf(client, name) ==
  IF name \in ClientResources
  THEN [tag |-> "resource", name |-> name, client |-> client]
  ELSE Undefined

\* a call that threw, returned a value, or reached the remote
Throws(error) == [outcome |-> "throw", error |-> error, value |-> Undefined]
Returns(value) == [outcome |-> "return", error |-> Null, value |-> value]
Remote(resource, method) ==
  [ outcome |-> "remote", error |-> Null,
    value |-> [resource |-> resource.name, method |-> method] ]

\* new SDKManager(authManager): the client it starts with
NewSDKManager(st) ==
  IF IsAuthenticated(st)
  THEN LET c == GetClient(st) IN
       IF c.tag = "AuthError" THEN Throws(c)
       ELSE Returns([tag |-> "SDKManager", client |-> c])
  ELSE Returns([tag |-> "SDKManager", client |-> Null])

\* SDKManager.getClient()
SDKGetClient(inst) ==
  IF inst.client = Null
  THEN Throws([tag |-> "Error", message |-> "Not authenticated. Please connect first."])
  ELSE Returns(inst.client)

\* SDKManager.isReady()
IsReady(inst) == inst.client # Null

\* a slip: the client field is read without getClient()
GetResource_Unchecked(inst, elementType) ==
  Returns(ResourceOf(inst.client, ResourceName(elementType)))

\* SDKManager.getResource(elementType)
GetResource(inst, elementType) ==
  LET client == SDKGetClient(inst) IN
  IF client.outcome = "throw" THEN client
  ELSE Returns(ResourceOf(client.value, ResourceName(elementType)))

\* SDKManager.listElements / getElement / createElement / updateElement /
\* deleteElement: resource[method](...)
ElementCall(inst, elementType, method) ==
  LET resource == GetResource(inst, elementType) IN
  IF resource.outcome = "throw" THEN resource
  ELSE IF resource.value = Undefined
  THEN Throws([tag |-> "TypeError",
               message |-> "Cannot read properties of undefined"])
  ELSE Remote(resource.value, method)

\* get characters() { return this.getClient().characters; } and the others
Accessor(inst, name) ==
  LET client == SDKGetClient(inst) IN
  IF client.outcome = "throw" THEN client
  ELSE Returns(ResourceOf(client.value, name))

\* listElements(client, elementType) of the response adapter
AdapterListElements(client, elementType) ==
  LET resource == ResourceOf(client, ResourceName(elementType)) IN
  IF resource = Undefined
  THEN Throws([tag |-> "Error",
               message |-> "Resource " \o ResourceName(elementType)
                             \o " not found in SDK client"])
  ELSE Remote(resource, "list")

(***************************************************************************)
(* State.                                                                  *)
(***************************************************************************)
VARIABLES
  state,                \* AuthManager.state
  authChangeCallbacks,  \* AuthManager.authChangeCallbacks
  localStorage,         \* the item under STORAGE_KEY
  calls,                \* the authenticate()/tryAutoAuth() calls at an await
  instance,             \* the SDKManager singleton, Null before it is built
  last                  \* history: what the latest step did

vars ==
  <<state, authChangeCallbacks, localStorage, calls, instance, last>>

\* a call suspended at `await client.worlds.get()`
Awaiting(op, apiKey, apiPin) ==
  [ op |-> op, pc |-> "awaiting", apiKey |-> apiKey, apiPin |-> apiPin,
    outcome |-> "pending", error |-> Null ]

\* a tryAutoAuth() call suspended at `await this.authenticate(...)`, which
\* has settled; the call no longer uses the credentials it loaded
Settled(op, outcome, error) ==
  [ op |-> op, pc |-> "settled", apiKey |-> "", apiPin |-> "",
    outcome |-> outcome, error |-> error ]

\* the record of a step: the operation and its arguments, how it ended
\* ("pending": suspended at an await), the error thrown or the value returned,
\* whether it sent a request to the remote, the listeners it called, the
\* remote's answer it resumed with, and whether a storage operation it made
\* failed
Step(op, arg, outcome, error, value, remote, notified, response, fault) ==
  [ op |-> op, arg |-> arg, outcome |-> outcome, error |-> error,
    value |-> value, remote |-> remote, notified |-> notified,
    response |-> response, fault |-> fault ]

NoArg == [tag |-> "none"]

\* the credentials an earlier page load saved
SavedItems ==
  { JSONStringify([apiKey |-> k, apiPin |-> p, timestamp |-> t]) :
      k \in Keys \ {""}, p \in Pins \ {""}, t \in Timestamps }

Init ==
  /\ state = ClearAuth
  /\ authChangeCallbacks = <<>>
  /\ localStorage \in ForeignItems \cup SavedItems
  /\ calls = EmptyBag
  /\ instance = Null
  /\ last = Step("new", NoArg, "return", Null, Undefined, FALSE, <<>>, Undefined,
              FALSE)

(***************************************************************************)
(* AuthManager operations.                                                 *)
(***************************************************************************)
\* authenticate(apiKey, apiPin) up to its await
Authenticate(apiKey, apiPin) ==
  LET arg == [apiKey |-> apiKey, apiPin |-> apiPin, caller |-> "authenticate"] IN
  IF CredentialsMissing(apiKey, apiPin)
  THEN /\ last' = Step("authenticate", arg, "throw",
                    AuthError("API key and pin are required", "INVALID_CREDENTIALS"),
                    Undefined, FALSE, <<>>, Undefined, FALSE)
       /\ UNCHANGED <<state, authChangeCallbacks, localStorage, calls, instance>>
  ELSE /\ BagCardinality(calls) < MaxCalls
       /\ calls' = calls (+) SetToBag({Awaiting("authenticate", apiKey, apiPin)})
       /\ last' = Step("authenticate", arg, "pending", Null, Undefined, TRUE, <<>>,
                    Undefined, FALSE)
       /\ UNCHANGED <<state, authChangeCallbacks, localStorage, instance>>

\* authenticate() from the remote's answer to its return or throw; for a call
\* made by tryAutoAuth(), that call then waits to resume
AuthenticateReturn(call, response, now, setOk) ==
  /\ call \in BagToSet(calls)
  /\ call.pc = "awaiting"
  /\ LET r == AuthenticateResume(localStorage, authChangeCallbacks, instance,
                call.apiKey, call.apiPin, response, now, setOk)
         arg == [apiKey |-> call.apiKey, apiPin |-> call.apiPin, caller |-> call.op]
     IN  /\ state' = r.state
         /\ localStorage' = r.storage
         /\ instance' = r.instance
         /\ calls' =
              IF call.op = "authenticate"
              THEN calls (-) SetToBag({call})
              ELSE (calls (-) SetToBag({call}))
                     (+) SetToBag({Settled(call.op, r.outcome, r.error)})
         /\ last' = Step("authenticate", arg, r.outcome, r.error, Undefined, FALSE,
                      r.notified, response, response \in Worlds /\ ~setOk)
  /\ UNCHANGED authChangeCallbacks

\* tryAutoAuth() up to its await
TryAutoAuth(getOk) ==
  LET stored == LoadCredentials(localStorage, getOk) IN
  IF stored = Null
  THEN /\ last' = Step("tryAutoAuth", NoArg, "false", Null, Undefined, FALSE, <<>>,
                    Undefined, ~getOk)
       /\ UNCHANGED <<state, authChangeCallbacks, localStorage, calls, instance>>
  ELSE /\ BagCardinality(calls) < MaxCalls
       /\ IF CredentialsMissing(stored.apiKey, stored.apiPin)
          THEN LET e == AuthError("API key and pin are required", "INVALID_CREDENTIALS") IN
               /\ calls' = calls (+) SetToBag({Settled("tryAutoAuth", "throw", e)})
               /\ last' = Step("tryAutoAuth", NoArg, "pending", Null, Undefined, FALSE,
                            <<>>, Undefined, FALSE)
          ELSE /\ calls' = calls (+) SetToBag({Awaiting("tryAutoAuth", stored.apiKey,
                                                 stored.apiPin)})
               /\ last' = Step("tryAutoAuth", NoArg, "pending", Null, Undefined, TRUE,
                            <<>>, Undefined, FALSE)
       /\ UNCHANGED <<state, authChangeCallbacks, localStorage, instance>>

\* tryAutoAuth() from the settling of its authenticate() to its return or throw
TryAutoAuthReturn(call, removeOk) ==
  /\ call \in BagToSet(calls)
  /\ call.pc = "settled"
  /\ calls' = calls (-) SetToBag({call})
  /\ IF call.outcome = "true"
     THEN /\ last' = Step("tryAutoAuth", NoArg, "true", Null, Undefined, FALSE, <<>>,
                       Undefined, FALSE)
          /\ UNCHANGED localStorage
     ELSE /\ localStorage' = ClearStorage(localStorage, removeOk)
          /\ last' = Step("tryAutoAuth", NoArg, "throw", call.error, Undefined, FALSE,
                       <<>>, Undefined, ~removeOk)
  /\ UNCHANGED <<state, authChangeCallbacks, instance>>

\* logout()
Logout(removeOk) ==
  LET told == NotifyAuthChange(ClearAuth, authChangeCallbacks, instance) IN
  /\ state' = ClearAuth
  /\ localStorage' = ClearStorage(localStorage, removeOk)
  /\ instance' = told.instance
  /\ last' = Step("logout", NoArg,
               IF told.threw THEN "throw" ELSE "return",
               Null, Undefined, FALSE, told.log, Undefined, ~removeOk)
  /\ UNCHANGED <<authChangeCallbacks, calls>>

\* onAuthChange(callback)
OnAuthChange(kind) ==
  /\ Len(authChangeCallbacks) < MaxListeners
  /\ authChangeCallbacks' = Append(authChangeCallbacks, kind)
  /\ last' = Step("onAuthChange", [kind |-> kind], "return", Null, Undefined, FALSE,
               <<>>, Undefined, FALSE)
  /\ UNCHANGED <<state, localStorage, calls, instance>>

(***************************************************************************)
(* SDKManager operations.                                                  *)
(***************************************************************************)
\* a step that changes nothing but the record of what it did
Report(op, arg, r) ==
  /\ last' = Step(op, arg, r.outcome, r.error, r.value, r.outcome = "remote", <<>>,
               Undefined, FALSE)
  /\ UNCHANGED <<state, authChangeCallbacks, localStorage, calls, instance>>

\* initializeSDKManager(authManager), the first time: new SDKManager(authManager)
InitializeSDKManager ==
  /\ instance = Null
  /\ Len(authChangeCallbacks) < MaxListeners
  /\ LET r == NewSDKManager(state) IN
     /\ instance' = IF r.outcome = "throw" THEN instance ELSE r.value
     /\ authChangeCallbacks' =
          IF r.outcome = "throw" THEN authChangeCallbacks
          ELSE Append(authChangeCallbacks, "sdk")
     /\ last' = Step("initializeSDKManager", NoArg, r.outcome, r.error, Undefined,
                  FALSE, <<>>, Undefined, FALSE)
  /\ UNCHANGED <<state, localStorage, calls>>

\* getSDKManager().getClient()
CallGetClient ==
  /\ instance # Null
  /\ Report("getClient", NoArg, SDKGetClient(instance))

\* getSDKManager().getResource(elementType)
CallGetResource(elementType) ==
  /\ instance # Null
  /\ Report("getResource", [elementType |-> elementType],
            GetResource(instance, elementType))

\* getSDKManager().listElements(elementType) and the four other methods
CallElement(elementType, method) ==
  /\ instance # Null
  /\ Report(method, [elementType |-> elementType],
            ElementCall(instance, elementType, method))

\* getSDKManager().characters and the other accessors
CallAccessor(name) ==
  /\ instance # Null
  /\ Report("accessor", [name |-> name], Accessor(instance, name))

\* listElements(authManager.getClient(), elementType) of the response adapter
CallAdapterListElements(elementType) ==
  /\ GetClient(state).tag = "client"
  /\ Report("adapter.listElements", [elementType |-> elementType],
            AdapterListElements(GetClient(state), elementType))

(***************************************************************************)
(* The pure functions of the response adapter and of app.ts are applied to *)
(* an input; these variables hold the input and the result.  The session   *)
(* store does not use them.                                                *)
(***************************************************************************)
VARIABLES
  input,                \* the argument of the function
  output                \* what the latest application returned

pureVars == <<input, output>>

\* nothing has been applied
NotApplied == [tag |-> "none"]

\* the pure functions at rest
PureIdle == input = NotApplied /\ output = NotApplied

(***************************************************************************)
(* The variables of app.ts: its module variables, the pending list         *)
(* requests of loadWorldData, and what the page shows.  Lengths are in     *)
(* canvas units; zoom is held in tenths (zoom = 10 is the scale 1).        *)
(***************************************************************************)
VARIABLES
  allGroups,            \* allGroups
  allElements,          \* allElements
  placedElements,       \* placedElements
  activeType,           \* activeType: null or a string
  currentView,          \* currentView
  panX, panY,           \* panX, panY
  zoom,                 \* zoom, in tenths
  isPanning,            \* isPanning
  panStartX, panStartY, \* panStartX, panStartY
  panOriginX, panOriginY, \* panOriginX, panOriginY
  loading,              \* where loadWorldData is: not called, at its await, done
  fetches,              \* the promise of each type's fetch
  typeList,             \* the buttons in #type-list
  main,                 \* the content of #main-content
  windowListeners,      \* the mousemove/mouseup listener pairs on window
  lastEvent,            \* history: the latest step of the page
  overlay,              \* the .bg-detail-overlay of the document, or null
  escHandlers,          \* the keydown listeners showDetail left on document
  toastManager          \* the ToastManager's fields, its elements and timers

cacheVars == <<allGroups, allElements, placedElements>>
panVars ==
  <<panX, panY, isPanning, panStartX, panStartY, panOriginX, panOriginY>>
pageVars ==
  <<loading, fetches, typeList, main, windowListeners, lastEvent>>
detailVars == <<overlay, escHandlers>>
appVars ==
  << cacheVars, activeType, currentView, panVars, zoom, pageVars, detailVars,
     toastManager >>

ELEMENT_TYPES ==
  << "character", "creature", "species", "location", "object",
     "institution", "collective", "event", "phenomenon",
     "ability", "trait", "title", "narrative", "family",
     "construct", "language", "law", "relation" >>

\* the promise of a fetch that has not been started
Unstarted == [tag |-> "unstarted"]

\* the module variables as app.ts initialises them, before renderApp()
AppInit ==
  /\ allGroups = <<>>
  /\ allElements = <<>>
  /\ placedElements = <<>>
  /\ activeType = Null
  /\ currentView = "map"
  /\ panX = 0 /\ panY = 0
  /\ zoom = 10
  /\ isPanning = FALSE
  /\ panStartX = 0 /\ panStartY = 0
  /\ panOriginX = 0 /\ panOriginY = 0
  /\ loading = "unrendered"
  /\ fetches = [i \in 1..Len(ELEMENT_TYPES) |-> Unstarted]
  /\ typeList = <<>>
  /\ main = [kind |-> "none"]
  /\ windowListeners = 0
  /\ lastEvent = "none"
  /\ overlay = Null
  /\ escHandlers = 0

\* new ToastManager(): no container, no toasts; els are the ids of the toast
\* elements in the container, dismissTimers and fadeTimers the ids whose
\* setTimeout callbacks are pending, count the toasts made so far
NewToastManager ==
  [ container |-> Null, toasts |-> <<>>, els |-> {}, dismissTimers |-> {},
    fadeTimers |-> {}, count |-> 0 ]

ToastFresh == toastManager = NewToastManager

\* the variables the session store does not use
restVars == <<pureVars, appVars>>

(***************************************************************************)
(* Spec: the session store with any listeners.                             *)
(* SpecGateway: the session store and the gateway as main.ts wires them    *)
(* (the SDKManager's listener is the only one), with the gateway's calls.  *)
(***************************************************************************)
Session ==
  \/ \E apiKey \in Keys, apiPin \in Pins :
       Authenticate(apiKey, apiPin) /\ UNCHANGED restVars
  \/ \E call \in BagToSet(calls), response \in Responses \ Worlds :
       AuthenticateReturn(call, response, 1, TRUE) /\ UNCHANGED restVars
  \/ \E call \in BagToSet(calls), response \in Worlds,
        now \in Timestamps, setOk \in BOOLEAN :
       AuthenticateReturn(call, response, now, setOk) /\ UNCHANGED restVars
  \/ \E getOk \in BOOLEAN : TryAutoAuth(getOk) /\ UNCHANGED restVars
  \/ \E call \in BagToSet(calls), removeOk \in BOOLEAN :
       TryAutoAuthReturn(call, removeOk) /\ UNCHANGED restVars
  \/ \E removeOk \in BOOLEAN : Logout(removeOk) /\ UNCHANGED restVars
  \/ InitializeSDKManager /\ UNCHANGED restVars

Gateway ==
  \/ CallGetClient /\ UNCHANGED restVars
  \/ \E elementType \in TypeNames :
       CallGetResource(elementType) /\ UNCHANGED restVars
  \/ \E elementType \in TypeNames, method \in Methods :
       CallElement(elementType, method) /\ UNCHANGED restVars
  \/ \E name \in AccessorNames : CallAccessor(name) /\ UNCHANGED restVars
  \/ \E elementType \in TypeNames :
       CallAdapterListElements(elementType) /\ UNCHANGED restVars

Next ==
  \/ Session
  \/ \E kind \in AppListeners : OnAuthChange(kind) /\ UNCHANGED restVars

NextGateway ==
  \/ Session
  \/ Gateway

\* the page before main.ts has done anything
InitSession == Init /\ PureIdle /\ AppInit /\ ToastFresh

Spec == InitSession /\ [][Next]_<<vars, restVars>>

SpecGateway == InitSession /\ [][NextGateway]_<<vars, restVars>>

\* SpecOverlap: authenticate() and tryAutoAuth() calls that overlap, with a
\* storage whose operations do not fail and no other operation
NextOverlap ==
  \/ \E apiKey \in Keys, apiPin \in Pins :
       Authenticate(apiKey, apiPin) /\ UNCHANGED restVars
  \/ \E call \in BagToSet(calls), response \in Responses \ Worlds :
       AuthenticateReturn(call, response, 1, TRUE) /\ UNCHANGED restVars
  \/ \E call \in BagToSet(calls), response \in Worlds, now \in Timestamps :
       AuthenticateReturn(call, response, now, TRUE) /\ UNCHANGED restVars
  \/ TryAutoAuth(TRUE) /\ UNCHANGED restVars
  \/ \E call \in BagToSet(calls) :
       TryAutoAuthReturn(call, TRUE) /\ UNCHANGED restVars

SpecOverlap == InitSession /\ [][NextOverlap]_<<vars, restVars>>

(***************************************************************************)
(* Properties of the session store.                                        *)
(***************************************************************************)
\* a session record is consistent: authenticated iff it has a client and a world
Consistent(st) == st.isAuthenticated <=> (st.client # Null /\ st.world # Null)

\* the latest step is an authenticate() that returned or threw (its own call
\* or the one tryAutoAuth() makes)
AuthenticateEnded == last.op = "authenticate" /\ last.outcome \in {"true", "throw"}

\* every registration was called once, in registration order, with `value`
NotifiedAll(value) ==
  /\ Len(last.notified) = Len(authChangeCallbacks)
  /\ \A i \in 1..Len(last.notified) :
       /\ last.notified[i].index = i
       /\ last.notified[i].kind = authChangeCallbacks[i]
       /\ last.notified[i].authenticated = value

\* C1: in every reachable state, and in every state a listener sees while it
\* is notified, isAuthenticated is true iff client and world are both non-null.
C1_AuthenticatedIffClientAndWorld ==
  /\ Consistent(state)
  /\ \A i \in 1..Len(last.notified) : Consistent(last.notified[i].seen)

\* C1 happens: a listener is being told of a session that was just stored
C1_Witness ==
  /\ AuthenticateEnded
  /\ state.isAuthenticated
  /\ Len(last.notified) > 0
  /\ last.notified[1].seen = state

\* C2: for non-empty key and pin, an authenticate() that returned leaves
\* isAuthenticated() true and getClient() and getWorld() returning a client and
\* a world; one that threw leaves isAuthenticated() false.
C2_AuthenticateLeavesSession ==
  (AuthenticateEnded /\ last.arg.apiKey # "" /\ last.arg.apiPin # "") =>
    /\ last.outcome = "true" =>
         /\ IsAuthenticated(state)
         /\ GetClient(state).tag = "client"
         /\ GetWorld(state).tag = "world"
    /\ last.outcome = "throw" => ~IsAuthenticated(state)

\* C2 happens: an authenticate() with non-empty arguments has returned true
C2_Witness ==
  /\ AuthenticateEnded
  /\ last.arg.apiKey # "" /\ last.arg.apiPin # ""
  /\ last.outcome = "true"
  /\ GetWorld(state) = last.response

\* C3: every failure of authenticate() is an AuthError with one code:
\* INVALID_CREDENTIALS for an empty key or pin, thrown without a request to the
\* remote; NO_WORLD when the remote answers with no world; NETWORK_ERROR when
\* the remote call fails, with the Error's message after "Authentication
\* failed: " (and "Unknown error" for a thrown value that is no Error).
C3_FailureCodes ==
  last.op = "authenticate" =>
    /\ (last.arg.apiKey = "" \/ last.arg.apiPin = "") =>
         /\ last.outcome = "throw"
         /\ last.error.code = "INVALID_CREDENTIALS"
         /\ ~last.remote
    /\ last.outcome = "throw" =>
         /\ last.error.tag = "AuthError"
         /\ last.error.code \in {"INVALID_CREDENTIALS", "NO_WORLD", "NETWORK_ERROR"}
         /\ last.error.code = "INVALID_CREDENTIALS" <=>
              (last.arg.apiKey = "" \/ last.arg.apiPin = "")
         /\ last.error.code = "NO_WORLD" <=> last.response = Null
         /\ last.error.code = "NETWORK_ERROR" <=>
              last.response.tag \in {"Error", "thrown"}
         /\ last.response.tag = "Error" =>
              last.error.message = "Authentication failed: " \o last.response.message
         /\ last.response.tag = "thrown" =>
              last.error.message = "Authentication failed: Unknown error"

\* C3 happens: the remote call failed and authenticate() threw
C3_Witness ==
  /\ AuthenticateEnded
  /\ last.outcome = "throw"
  /\ last.response.tag = "Error"

\* C4: when the remote answers with a world, authenticate() returns true and
\* has called every registered listener once with true, in registration order,
\* in the step in which it returns, whether or not a listener threw.
C4_ListenersNotifiedInOrder ==
  (last.op = "authenticate" /\ last.response \in Worlds) =>
    /\ last.outcome = "true"
    /\ NotifiedAll(TRUE)

\* C4 happens: the first listener threw and the second was still called
C4_Witness ==
  /\ AuthenticateEnded
  /\ last.outcome = "true"
  /\ Len(last.notified) = 2
  /\ last.notified[1].threw
  /\ last.notified[2].kind = "sdk"

\* the stored item gives tryAutoAuth() nothing to authenticate with: nothing
\* stored, text that is not JSON, or a value without a non-empty apiKey and
\* apiPin
NoUsableCredentials(item) ==
  \/ item = Absent
  \/ item.tag = "text"
  \/ item.value = Null
  \/ "apiKey" \notin DOMAIN item.value
  \/ "apiPin" \notin DOMAIN item.value
  \/ item.value.apiKey = ""
  \/ item.value.apiPin = ""

\* the latest step is a tryAutoAuth() up to its return of false or its await
AutoAuthCalled == last.op = "tryAutoAuth" /\ last.outcome \in {"false", "pending"}

\* the latest step is a tryAutoAuth() that threw
AutoAuthThrew == last.op = "tryAutoAuth" /\ last.outcome = "throw"

\* C5 as claimed: whenever a tryAutoAuth() that found credentials throws, the
\* stored credentials are gone.
C5_Original == AutoAuthThrew => localStorage = Absent

\* C5: a tryAutoAuth() whose authenticate() threw throws that same AuthError
\* and removes the stored item, unless removeItem failed, and then the item is
\* as it was; after a removal that worked, the next tryAutoAuth() returns false
\* and sends nothing to the remote.
C5_AutoAuthFailureClearsStorage ==
  [][ /\ AutoAuthThrew' =>
           /\ \E call \in BagToSet(calls) :
                /\ call.pc = "settled"
                /\ call.outcome = "throw"
                /\ call.error = last'.error
                /\ calls' = calls (-) SetToBag({call})
           /\ last'.error.tag = "AuthError"
           /\ ~last'.fault => localStorage' = Absent
           /\ last'.fault => localStorage' = localStorage
      /\ (AutoAuthThrew /\ ~last.fault /\ AutoAuthCalled') =>
           /\ last'.outcome = "false"
           /\ ~last'.remote
    ]_vars

\* C5 happens: tryAutoAuth() threw and the stored item was removed
C5_Witness ==
  /\ AutoAuthThrew
  /\ ~last.fault
  /\ last.error.code = "NO_WORLD"
  /\ localStorage = Absent

\* C6: a tryAutoAuth() called with no usable stored credentials returns false:
\* it sends nothing to the remote, calls no listener, suspends no call, and
\* leaves the session, the storage, the listeners and the gateway as they were.
C6_AutoAuthWithoutCredentials ==
  [][ (NoUsableCredentials(localStorage) /\ AutoAuthCalled') =>
        /\ last'.outcome = "false"
        /\ ~last'.remote
        /\ last'.notified = <<>>
        /\ UNCHANGED <<state, localStorage, calls, authChangeCallbacks, instance>>
    ]_vars

\* C6 happens: tryAutoAuth() returned false on a stored value without a pin
C6_Witness ==
  /\ last.op = "tryAutoAuth"
  /\ last.outcome = "false"
  /\ ~last.fault
  /\ localStorage = JSONStringify([apiKey |-> "k1"])

\* the session is cleared
Cleared(st) ==
  /\ ~st.isAuthenticated
  /\ st.client = Null
  /\ st.world = Null
  /\ st.credentials = Null

\* C7 as claimed: logout() clears the session, removes the stored credentials
\* and tells every listener false; when the session is already logged out it
\* leaves the session and the storage as they were.
C7_Original ==
  [][ last'.op = "logout" =>
        /\ last'.outcome = "return"
        /\ Cleared(state')
        /\ localStorage' = Absent
        /\ NotifiedAll(FALSE)'
        /\ ~state.isAuthenticated => (state' = state /\ localStorage' = localStorage)
    ]_vars

\* C7: logout() returns, clears the session and tells every listener false,
\* once each in registration order; it removes the stored item unless
\* removeItem failed, and then the item is as it was; when the session is
\* already logged out the session is as it was.
C7_LogoutClears ==
  [][ last'.op = "logout" =>
        /\ last'.outcome = "return"
        /\ Cleared(state')
        /\ ~last'.fault => localStorage' = Absent
        /\ last'.fault => localStorage' = localStorage
        /\ NotifiedAll(FALSE)'
        /\ ~state.isAuthenticated => state' = state
    ]_vars

\* C7 happens: logout() ended a session, removed the item and told a listener
C7_Witness ==
  /\ last.op = "logout"
  /\ ~last.fault
  /\ localStorage = Absent
  /\ Len(last.notified) > 0
  /\ instance # Null
  /\ ~IsReady(instance)

\* C8 as claimed: a storage failure changes the outcome of no call: a world
\* from the remote makes authenticate() return true with the session stored
\* and the listeners told; tryAutoAuth() returns false exactly when no usable
\* credentials are stored; logout() returns.
C8_Original ==
  /\ (last.op = "authenticate" /\ last.response \in Worlds) =>
       (last.outcome = "true" /\ IsAuthenticated(state) /\ NotifiedAll(TRUE))
  /\ AutoAuthCalled =>
       (last.outcome = "false" <=> NoUsableCredentials(localStorage))
  /\ last.op = "logout" => last.outcome = "return"

\* C8: a storage failure makes no call fail: a world from the remote makes
\* authenticate() return true with the session stored and the listeners told,
\* also when setItem failed; no call throws anything but the three
\* authentication codes; logout() returns, also when removeItem failed;
\* tryAutoAuth() returns false exactly when no usable credentials are stored
\* or getItem failed.
C8_StorageFailureTolerated ==
  /\ (last.op = "authenticate" /\ last.response \in Worlds) =>
       (last.outcome = "true" /\ IsAuthenticated(state) /\ NotifiedAll(TRUE))
  /\ (last.op \in {"authenticate", "tryAutoAuth"} /\ last.outcome = "throw") =>
       last.error.code \in {"INVALID_CREDENTIALS", "NO_WORLD", "NETWORK_ERROR"}
  /\ AutoAuthCalled =>
       (last.outcome = "false" <=> (NoUsableCredentials(localStorage) \/ last.fault))
  /\ last.op = "logout" => (last.outcome = "return" /\ Cleared(state))

\* C8 happens: setItem failed, and authenticate() returned true and told a
\* listener of the session
C8_Witness ==
  /\ AuthenticateEnded
  /\ last.fault
  /\ last.outcome = "true"
  /\ Len(last.notified) > 0
  /\ NoUsableCredentials(localStorage)

(***************************************************************************)
(* Properties of the gateway (under SpecGateway).                          *)
(***************************************************************************)
\* the calls of the SDKManager that go through its getClient()
GatewayOps == {"getClient", "getResource", "accessor"} \cup Methods

\* the calls that take a type name
TypedOps == {"getResource", "adapter.listElements"} \cup Methods

\* the gateway is built and holds a client
Ready == instance # Null /\ IsReady(instance)

\* the latest step is a call of the gateway made while it held no client
CalledWithoutClient == last.op \in GatewayOps /\ instance # Null /\ ~IsReady(instance)

\* C9: the gateway holds no client before a session exists (it gets one only
\* in a step that ends with an authenticated session), and every call made
\* while it holds none throws "Not authenticated" and sends nothing to the
\* remote.
C9_GatewayNeedsSession ==
  [][ /\ CalledWithoutClient' =>
           /\ last'.outcome = "throw"
           /\ last'.error.message = "Not authenticated. Please connect first."
           /\ ~last'.remote
      /\ (Ready' /\ ~Ready) => IsAuthenticated(state')
    ]_vars

\* C9 happens: deleteElement was called on a gateway built before any session
C9_Witness ==
  /\ last.op = "delete"
  /\ last.outcome = "throw"
  /\ instance # Null
  /\ ~IsReady(instance)
  /\ localStorage \in ForeignItems

\* the error that names a resource the client does not have
UnknownResource(elementType) ==
  [ tag |-> "Error",
    message |-> "Resource " \o ResourceName(elementType) \o " not found in SDK client" ]

\* C10: a call made while authenticated for a type name whose resource the
\* client does not have throws an error naming the unknown resource: it
\* returns nothing to the caller and does not reach the remote.
C10_UnknownResourceFails ==
  ( /\ last.op \in TypedOps
    /\ Ready
    /\ IsAuthenticated(state)
    /\ ResourceName(last.arg.elementType) \notin ClientResources ) =>
    /\ last.outcome = "throw"
    /\ last.error = UnknownResource(last.arg.elementType)
    /\ ~last.remote

(***************************************************************************)
(* Response Normalizer: parseListResponse of the response adapter, and     *)
(* parseResponse of app.ts.  A response is a JavaScript value:             *)
(*   Null, Undefined, a number, a string, an array, or an object whose     *)
(*   properties are kept in insertion order (the order of Object.values).  *)
(***************************************************************************)
\* items in one results array
MaxItems == 2

JNumber(n) == [tag |-> "number", n |-> n]
JString(s) == [tag |-> "string", s |-> s]
JArray(items) == [tag |-> "array", items |-> items]
JObject(props) == [tag |-> "object", props |-> props]
Prop(key, value) == [key |-> key, value |-> value]

\* Array.isArray(v)
IsArray(v) == v.tag = "array"

\* the value in a boolean position: false for null, undefined, 0 and ""
Truthy(v) ==
  CASE v.tag \in {"null", "undefined"} -> FALSE
    [] v.tag = "number" -> v.n # 0
    [] v.tag = "string" -> v.s # ""
    [] OTHER -> TRUE

\* a || b
OrElse(a, b) == IF Truthy(a) THEN a ELSE b

\* key in obj
HasProp(obj, key) == \E i \in 1..Len(obj.props) : obj.props[i].key = key

\* obj[key] (keys of an object are distinct)
GetProp(obj, key) ==
  IF HasProp(obj, key)
  THEN (CHOOSE q \in {obj.props[i] : i \in 1..Len(obj.props)} : q.key = key).value
  ELSE Undefined

\* v?.length
OptLength(v) ==
  CASE v.tag \in {"null", "undefined"} -> Undefined
    [] v.tag = "array" -> JNumber(Len(v.items))
    [] v.tag = "string" -> JNumber(Len(v.s))
    [] OTHER -> Undefined

\* the ParsedListResponse for a response that is not recognised
EmptyList ==
  [ items |-> JArray(<<>>), count |-> JNumber(0), hasNext |-> FALSE,
    hasPrevious |-> FALSE, next |-> Null, previous |-> Null ]

\* parseListResponse(response)
ParseListResponse(response) ==
  IF IsArray(response)
  THEN [ items |-> response, count |-> JNumber(Len(response.items)),
         hasNext |-> FALSE, hasPrevious |-> FALSE,
         next |-> Null, previous |-> Null ]
  ELSE IF response.tag = "object" /\ HasProp(response, "results")
  THEN LET results == GetProp(response, "results") IN
       [ items |-> OrElse(results, JArray(<<>>)),
         count |-> OrElse(OrElse(GetProp(response, "count"), OptLength(results)),
                          JNumber(0)),
         hasNext |-> Truthy(GetProp(response, "next")),
         hasPrevious |-> Truthy(GetProp(response, "previous")),
         next |-> OrElse(GetProp(response, "next"), Null),
         previous |-> OrElse(GetProp(response, "previous"), Null) ]
  ELSE EmptyList

\* parseResponse(response) of app.ts: the array of items
ParseResponse(response) ==
  IF IsArray(response) THEN response
  ELSE IF /\ response.tag = "object"
          /\ Truthy(GetProp(response, "results"))
          /\ IsArray(GetProp(response, "results"))
  THEN GetProp(response, "results")
  ELSE IF /\ response.tag = "object"
          /\ Len(response.props) > 0
          /\ IsArray(response.props[1].value)
  THEN response.props[1].value
  ELSE JArray(<<>>)

\* the arrays a response can carry
Arrays == {JArray([i \in 1..n |-> JNumber(i)]) : n \in 0..MaxItems}

\* the optional properties of a paginated response, in the order written
Optional(key, values) == {<<>>} \cup {<<Prop(key, v)>> : v \in values}

Paginated ==
  { JObject(r \o c \o n \o q) :
      r \in Optional("results", Arrays \cup {Null}),
      c \in Optional("count", {JNumber(0), JNumber(1), JNumber(5)}),
      n \in Optional("next", {Null, JString("x")}),
      q \in Optional("previous", {JString("p")}) }

\* wrappers with other property names
Wrappers ==
  { JObject(<<Prop("data", a)>>) : a \in Arrays }
    \cup { JObject(<<Prop("data", a), Prop("total", JNumber(1))>>) : a \in Arrays }
    \cup { JObject(<<Prop("total", JNumber(1)), Prop("data", a)>>) : a \in Arrays }
    \cup { JObject(<<Prop("data", JString("ab"))>>) }

\* what resource.list() could resolve with
RawResponses ==
  Arrays \cup Paginated \cup Wrappers \cup {Null, Undefined, JNumber(0), JString("ab")}

Applied(fn, arg, value) == [tag |-> "applied", fn |-> fn, arg |-> arg, value |-> value]

\* the session store at rest
SessionIdle ==
  /\ state = ClearAuth
  /\ authChangeCallbacks = <<>>
  /\ localStorage = Absent
  /\ calls = EmptyBag
  /\ instance = Null
  /\ last = Step("new", NoArg, "return", Null, Undefined, FALSE, <<>>, Undefined,
              FALSE)

InitNormalizer ==
  /\ SessionIdle
  /\ AppInit
  /\ ToastFresh
  /\ input \in RawResponses
  /\ output = NotApplied

\* parseListResponse(input)
ApplyParseListResponse ==
  /\ output' = Applied("parseListResponse", input, ParseListResponse(input))
  /\ UNCHANGED <<input, vars, appVars>>

\* parseResponse(input)
ApplyParseResponse ==
  /\ output' = Applied("parseResponse", input, ParseResponse(input))
  /\ UNCHANGED <<input, vars, appVars>>

NextNormalizer == ApplyParseListResponse \/ ApplyParseResponse

SpecNormalizer == InitNormalizer /\ [][NextNormalizer]_<<vars, restVars>>

(***************************************************************************)
(* Spatial Layout Engine: hashString and placeElements of app.ts.          *)
(* A string is the sequence of its UTF-16 code units (what charCodeAt      *)
(* reads); an element's type is kept as a name, with its code units in     *)
(* CodeUnits.                                                              *)
(***************************************************************************)
\* elements in one layout run
MaxElements == 6

MAP_W == 2400
MAP_H == 1600
margin == 80
usableW == MAP_W - margin * 2
usableH == MAP_H - margin * 2

\* the code units of the type names of ELEMENT_TYPES
CodeUnits ==
  [ character |-> <<99, 104, 97, 114, 97, 99, 116, 101, 114>>,
    creature |-> <<99, 114, 101, 97, 116, 117, 114, 101>>,
    species |-> <<115, 112, 101, 99, 105, 101, 115>>,
    location |-> <<108, 111, 99, 97, 116, 105, 111, 110>>,
    object |-> <<111, 98, 106, 101, 99, 116>>,
    institution |-> <<105, 110, 115, 116, 105, 116, 117, 116, 105, 111, 110>>,
    collective |-> <<99, 111, 108, 108, 101, 99, 116, 105, 118, 101>>,
    event |-> <<101, 118, 101, 110, 116>>,
    phenomenon |-> <<112, 104, 101, 110, 111, 109, 101, 110, 111, 110>>,
    ability |-> <<97, 98, 105, 108, 105, 116, 121>>,
    trait |-> <<116, 114, 97, 105, 116>>,
    title |-> <<116, 105, 116, 108, 101>>,
    narrative |-> <<110, 97, 114, 114, 97, 116, 105, 118, 101>>,
    family |-> <<102, 97, 109, 105, 108, 121>>,
    construct |-> <<99, 111, 110, 115, 116, 114, 117, 99, 116>>,
    language |-> <<108, 97, 110, 103, 117, 97, 103, 101>>,
    law |-> <<108, 97, 119>>,
    relation |-> <<114, 101, 108, 97, 116, 105, 111, 110>> ]

\* A 32-bit value is kept as two 16-bit halves, hi * 65536 + lo, so that no
\* intermediate result leaves the range of the checker's integers.
Word(hi, lo) == [hi |-> hi, lo |-> lo]

\* ((hash << 5) + hash + c) & 0xffffffff, as the 32-bit pattern of the result:
\* hash * 33 + c modulo 2^32
HashStep(hash, c) ==
  LET lo == hash.lo * 33 + c
      hi == hash.hi * 33 + lo \div 65536
  IN  Word(hi % 65536, lo % 65536)

\* the for loop of hashString from character i on
RECURSIVE HashLoop(_, _, _)
HashLoop(str, i, hash) ==
  IF i > Len(str) THEN hash
  ELSE HashLoop(str, i + 1, HashStep(hash, str[i]))

\* a slip: the masked value is returned as it is, without Math.abs
MathAbs_Signed(hash) == hash

\* Math.abs of the signed 32-bit value with this pattern: the pattern itself
\* when the sign bit is clear, and 2^32 minus it otherwise (at most 2^31)
MathAbs(hash) ==
  IF hash.hi < 32768 THEN hash
  ELSE LET borrow == IF hash.lo = 0 THEN 0 ELSE 1 IN
       Word(65536 - hash.hi - borrow, (65536 - hash.lo) % 65536)

\* hashString(str)
hashString(str) == MathAbs(HashLoop(str, 1, Word(0, 5381)))

\* (h + k) % m for a hash h, 0 <= k and m < 32768
ModPlus(h, k, m) == ((((h.hi % m) * 65536 + h.lo) % m) + k) % m

\* Math.cos(i * goldenAngle) and Math.sin(i * goldenAngle) in units of 1/10000,
\* for goldenAngle = 137.508 degrees and i = 0, 1, ...
GoldenCos == <<10000, -7374, 874, 6084, -9847, 8438, -2596, -4609, 9393, -9244>>
GoldenSin == <<0, 6755, -9962, 7936, -1742, -5367, 9657, -8875, 3431, 3815>>

\* num / den rounded to the nearest integer
Rounded(num, den) == (2 * num + den) \div (2 * den)

\* The coordinates of the i-th location of n (i from 0), rounded to a whole
\* unit: margin + usable / 2 + cos(angle) * radius * usable / 2 with
\* radius = 0.2 + (i / max(n, 1)) * 0.3 = (2 * n + 3 * i) / (10 * n)
AnchorX(i, n) ==
  LET m == IF n > 1 THEN n ELSE 1 IN
  margin + usableW \div 2
    + Rounded(GoldenCos[i + 1] * (2 * m + 3 * i) * (usableW \div 20), 10000 * m)

AnchorY(i, n) ==
  LET m == IF n > 1 THEN n ELSE 1 IN
  margin + usableH \div 2
    + Rounded(GoldenSin[i + 1] * (2 * m + 3 * i) * (usableH \div 20), 10000 * m)

\* { ...el, x, y }
PlacedElement(el, x, y) ==
  [id |-> el.id, name |-> el.name, type |-> el.type, x |-> x, y |-> y]

\* Math.sqrt(dx * dx + dy * dy) < 60
TooClose(p, x, y) == (p.x - x) * (p.x - x) + (p.y - y) * (p.y - y) < 60 * 60

\* the inner for loop: the index of the first placed point too close to (x, y),
\* 0 when there is none
FirstTooClose(placed, x, y) ==
  LET close == {j \in 1..Len(placed) : TooClose(placed[j], x, y)} IN
  IF close = {} THEN 0 ELSE CHOOSE j \in close : \A k \in close : j <= k

\* one pass of the retry loop: the candidate checked, whether a placed point
\* was too close, and how many placed points were compared with it
Check(placed, x, y) ==
  LET first == FirstTooClose(placed, x, y) IN
  [ x |-> x, y |-> y, tooClose |-> first # 0,
    compared |-> IF first = 0 THEN Len(placed) ELSE first ]

\* a slip: the loop condition is attempt <= 5
RECURSIVE Nudge_OneMore(_, _, _, _, _, _, _)
Nudge_OneMore(attempt, x, y, h, h2, placed, checked) ==
  IF attempt > 5 THEN [x |-> x, y |-> y, checked |-> checked]
  ELSE LET check == Check(placed, x, y) IN
       IF ~check.tooClose
       THEN [x |-> x, y |-> y, checked |-> Append(checked, check)]
       ELSE Nudge_OneMore(attempt + 1,
              margin + ModPlus(h, attempt * 197, usableW),
              margin + ModPlus(h2, attempt * 131, usableH),
              h, h2, placed, Append(checked, check))

\* The retry loop from `attempt` on, with (x, y) the current candidate: the
\* accepted position and the checks made
RECURSIVE Nudge(_, _, _, _, _, _, _)
Nudge(attempt, x, y, h, h2, placed, checked) ==
  IF attempt >= 5 THEN [x |-> x, y |-> y, checked |-> checked]
  ELSE LET check == Check(placed, x, y) IN
       IF ~check.tooClose
       THEN [x |-> x, y |-> y, checked |-> Append(checked, check)]
       ELSE Nudge(attempt + 1,
              margin + ModPlus(h, attempt * 197, usableW),
              margin + ModPlus(h2, attempt * 131, usableH),
              h, h2, placed, Append(checked, check))

\* a slip: the y-seed is hashed from the same string as the x-seed
PlaceOther_OneSeed(el, placed) ==
  LET h == hashString(el.id \o el.name)
      h2 == hashString(el.id \o el.name)
  IN  Nudge(0, margin + ModPlus(h, 0, usableW), margin + ModPlus(h2, 0, usableH),
            h, h2, placed, <<>>)

\* the body of others.forEach for one element
PlaceOther(el, placed) ==
  LET h == hashString(el.id \o el.name)
      h2 == hashString(el.name \o CodeUnits[el.type])
  IN  Nudge(0, margin + ModPlus(h, 0, usableW), margin + ModPlus(h2, 0, usableH),
            h, h2, placed, <<>>)

\* others.forEach from element k on; acc holds `placed` and the checks made for
\* each element placed so far
RECURSIVE PlaceOthers(_, _, _)
PlaceOthers(others, k, acc) ==
  IF k > Len(others) THEN acc
  ELSE LET r == PlaceOther(others[k], acc.placed) IN
       PlaceOthers(others, k + 1,
         [ placed |-> Append(acc.placed, PlacedElement(others[k], r.x, r.y)),
           checks |-> Append(acc.checks, r.checked) ])

\* elements.filter(e => e.type === 'location')
Locations(elements) == SelectSeq(elements, LAMBDA e : e.type = "location")

\* a slip: the second filter tests another type
Others_WrongType(elements) == SelectSeq(elements, LAMBDA e : e.type # "character")

\* elements.filter(e => e.type !== 'location')
Others(elements) == SelectSeq(elements, LAMBDA e : e.type # "location")

\* locations.forEach
PlaceLocations(locations) ==
  [ i \in 1..Len(locations) |->
      PlacedElement(locations[i], AnchorX(i - 1, Len(locations)),
                    AnchorY(i - 1, Len(locations))) ]

\* placeElements(elements), with the checks made for each of the others
PlaceElementsTraced(elements) ==
  LET anchors == PlaceLocations(Locations(elements)) IN
  PlaceOthers(Others(elements), 1,
    [placed |-> anchors, checks |-> [i \in 1..Len(anchors) |-> <<>>]])

\* placeElements(elements)
placeElements(elements) == PlaceElementsTraced(elements).placed

Element(id, name, type) == [id |-> id, name |-> name, type |-> type]

\* The elements a world can hold: a location ("l", "a"); a character ("g",
\* "cz") whose first candidate is within 60 units of the first location's
\* place; an element with the character's id and name and another type; one
\* more element ("b", "x").
ElementPool ==
  { Element(<<108>>, <<97>>, "location"),
    Element(<<103>>, <<99, 122>>, "character"),
    Element(<<103>>, <<99, 122>>, "creature"),
    Element(<<98>>, <<120>>, "event") }

RECURSIVE ListsUpTo(_)
ListsUpTo(n) ==
  IF n = 0 THEN {<<>>}
  ELSE LET shorter == ListsUpTo(n - 1) IN
       shorter \cup {Append(l, e) : l \in {s \in shorter : Len(s) = n - 1},
                                    e \in ElementPool}

ElementLists == ListsUpTo(MaxElements)

InitLayout ==
  /\ SessionIdle
  /\ AppInit
  /\ ToastFresh
  /\ input \in ElementLists
  /\ output = NotApplied

\* placedElements = placeElements(allElements)
ApplyPlaceElements ==
  /\ output = NotApplied
  /\ LET r == PlaceElementsTraced(input) IN
     output' = [ tag |-> "applied", fn |-> "placeElements", arg |-> input,
                 value |-> r.placed, checks |-> r.checks ]
  /\ UNCHANGED <<input, vars, appVars>>

NextLayout == ApplyPlaceElements

SpecLayout == InitLayout /\ [][NextLayout]_<<vars, restVars>>

\* code units in an id or a name of the runs below
MaxChars == 2

\* code units an id or a name is made of: NUL, "a" and the largest code unit
CodeUnitPool == {0, 97, 65535}

\* the strings of at most n code units of the pool
RECURSIVE StringsUpTo(_)
StringsUpTo(n) ==
  IF n = 0 THEN {<<>>}
  ELSE LET shorter == StringsUpTo(n - 1) IN
       shorter \cup {Append(str, c) : str \in {t \in shorter : Len(t) = n - 1},
                                      c \in CodeUnitPool}

\* Runs of placeElements over many ids and names: the world holds one element,
\* of a short or a long type name, from one to MaxElements times, so that each
\* copy after the first is moved through the retries.
InitMargins ==
  /\ SessionIdle
  /\ AppInit
  /\ ToastFresh
  /\ \E id \in StringsUpTo(MaxChars), name \in StringsUpTo(MaxChars),
        type \in {"law", "character"}, n \in 1..MaxElements :
       input = [i \in 1..n |-> Element(id, name, type)]
  /\ output = NotApplied

NextMargins == ApplyPlaceElements

SpecMargins == InitMargins /\ [][NextMargins]_<<vars, restVars>>

(***************************************************************************)
(* Toast Manager (toast-manager.ts).  A toast's id, made from Date.now()   *)
(* and Math.random(), is the number of the show() call that made it.  The  *)
(* callbacks of setTimeout fire in any order, since show() takes any       *)
(* duration.                                                               *)
(***************************************************************************)
\* show() calls that make a toast
MaxShown == 4

\* a slip: the queue keeps one toast more
maxToasts_Four == 3 + 1

\* private maxToasts = 3
maxToasts == 3

ToastTypes == {"success", "error", "info"}

\* document.getElementById('toast-container') when the page has the element
ToastContainer == [tag |-> "element", id |-> "toast-container"]

Toast(id, type) == [id |-> id, type |-> type]

\* the ids of the toasts of a queue
ToastIds(queue) == {queue[k].id : k \in 1..Len(queue)}

\* init(), on a page that has the container or not
ToastManagerInit(tm, found) ==
  [tm EXCEPT !.container = IF found THEN ToastContainer ELSE Null]

\* removeToast(id): the element, if it is in the document, fades and a timer
\* is set to remove it; the toast leaves the queue
RemoveToast(tm, id) ==
  [ tm EXCEPT
      !.fadeTimers = IF id \in tm.els THEN @ \cup {id} ELSE @,
      !.toasts = SelectSeq(@, LAMBDA t : t.id # id) ]

\* renderToast(toast): the element is appended and the dismiss timer set
RenderToast(tm, toast) ==
  IF tm.container = Null THEN tm
  ELSE [ tm EXCEPT !.els = @ \cup {toast.id},
                   !.dismissTimers = @ \cup {toast.id} ]

\* show(message, type, duration)
Show(tm, type) ==
  IF tm.container = Null THEN tm
  ELSE LET toast == Toast(tm.count + 1, type)
           pushed == [tm EXCEPT !.count = @ + 1, !.toasts = Append(@, toast)]
           kept == IF Len(pushed.toasts) > maxToasts
                   THEN RemoveToast([pushed EXCEPT !.toasts = Tail(@)],
                                    pushed.toasts[1].id)
                   ELSE pushed
       IN  RenderToast(kept, toast)

\* this.toasts.forEach(toast => this.removeToast(toast.id)) from the k-th
\* toast of the array the loop was started on
RECURSIVE RemoveEach(_, _, _)
RemoveEach(tm, queue, k) ==
  IF k > Len(queue) THEN tm
  ELSE RemoveEach(RemoveToast(tm, queue[k].id), queue, k + 1)

\* clearAll()
ClearAll(tm) == [RemoveEach(tm, tm.toasts, 1) EXCEPT !.toasts = <<>>]

\* toastManager.init()
CallToastInit(found) ==
  /\ toastManager' = ToastManagerInit(toastManager, found)
  /\ UNCHANGED <<vars, pureVars>>
  /\ UNCHANGED <<cacheVars, activeType, currentView, panVars, zoom, pageVars,
                 detailVars>>

\* toastManager.show(message, type) and success/error/info
CallShow(type) ==
  /\ toastManager.container # Null => toastManager.count < MaxShown
  /\ toastManager' = Show(toastManager, type)
  /\ UNCHANGED <<vars, pureVars>>
  /\ UNCHANGED <<cacheVars, activeType, currentView, panVars, zoom, pageVars,
                 detailVars>>

\* toastManager.clearAll()
CallClearAll ==
  /\ toastManager' = ClearAll(toastManager)
  /\ UNCHANGED <<vars, pureVars>>
  /\ UNCHANGED <<cacheVars, activeType, currentView, panVars, zoom, pageVars,
                 detailVars>>

\* the dismiss timer of a toast fires: removeToast(toast.id)
DismissFires(id) ==
  /\ id \in toastManager.dismissTimers
  /\ toastManager' =
       RemoveToast([toastManager EXCEPT !.dismissTimers = @ \ {id}], id)
  /\ UNCHANGED <<vars, pureVars>>
  /\ UNCHANGED <<cacheVars, activeType, currentView, panVars, zoom, pageVars,
                 detailVars>>

\* a timer set by removeToast fires: toastEl.remove().  Timers set for one
\* element are kept as one: the later ones find the element removed.
FadeFires(id) ==
  /\ id \in toastManager.fadeTimers
  /\ toastManager' = [toastManager EXCEPT !.fadeTimers = @ \ {id},
                                          !.els = @ \ {id}]
  /\ UNCHANGED <<vars, pureVars>>
  /\ UNCHANGED <<cacheVars, activeType, currentView, panVars, zoom, pageVars,
                 detailVars>>

InitToast ==
  /\ SessionIdle
  /\ PureIdle
  /\ AppInit
  /\ ToastFresh

NextToast ==
  \/ \E found \in BOOLEAN : CallToastInit(found)
  \/ \E type \in ToastTypes : CallShow(type)
  \/ CallClearAll
  \/ \E id \in 1..MaxShown : DismissFires(id)
  \/ \E id \in 1..MaxShown : FadeFires(id)

\* every timer that is set fires
ToastFairness ==
  \A id \in 1..MaxShown :
    /\ WF_<<vars, restVars>>(DismissFires(id))
    /\ WF_<<vars, restVars>>(FadeFires(id))

SpecToast == InitToast /\ [][NextToast]_<<vars, restVars>> /\ ToastFairness

(***************************************************************************)
(* The application shell of app.ts: renderApp, loadWorldData, the sidebar, *)
(* the two views and the handlers of the map.  The page is rendered once,  *)
(* by main.ts, after the session is authenticated and the gateway built.   *)
(***************************************************************************)
\* how far the map is dragged from its centred place, in pointer steps
MaxDrag == 1
\* renderings of the map surface in one page
MaxRenders == 3

\* Math.min(2.5, Math.max(0.3, ...)) and the step 0.1, in tenths
ZoomMin == 3
ZoomMax == 25
ZoomStep == 1

\* deltaY of a wheel event
Deltas == {-100, 0, 3}

\* clientX, clientY of a mouse event
Pointers == {[clientX |-> 10 * k, clientY |-> 20 * k] : k \in 0..MaxDrag}

\* clientWidth, clientHeight of #main-content
Viewport == [clientWidth |-> 800, clientHeight |-> 600]

\* panX, panY as loadWorldData centres the map
CentreX == 0 - (MAP_W \div 2 - Viewport.clientWidth \div 2)
CentreY == 0 - (MAP_H \div 2 - Viewport.clientHeight \div 2)

\* the places a drag can take the map to
InDragRange(x, y) ==
  /\ x - CentreX \in (0 - 10 * MaxDrag)..(10 * MaxDrag)
  /\ y - CentreY \in (0 - 20 * MaxDrag)..(20 * MaxDrag)

\* The remote world: two characters, the first with a first candidate within
\* 60 units of the location's place, and one location; nothing of the other
\* types.
WorldTypes == {"character", "location"}
WorldItems(type) ==
  IF type = "character"
  THEN << [id |-> <<103>>, name |-> <<99, 122>>],
          [id |-> <<98>>, name |-> <<120>>] >>
  ELSE IF type = "location"
  THEN << [id |-> <<108>>, name |-> <<97>>] >>
  ELSE <<>>

\* what resource.list() can settle with: the list of the type's items, or a
\* rejection (only the types the world holds something of are made to fail)
RequestFailed == [tag |-> "rejected"]
NoRequest == [tag |-> "no request"]
Answers(type) ==
  {JArray(WorldItems(type))}
    \cup (IF type \in WorldTypes THEN {RequestFailed} ELSE {})

\* the promise of a type's fetch: waiting at `await resource.list()`, or
\* fulfilled with a group or null (response: what list() settled with)
Pending == [tag |-> "pending"]
Fulfilled(value, response) ==
  [tag |-> "fulfilled", value |-> value, response |-> response]

\* (sdk as any)[name]: a getter of the SDKManager, or no property
SdkProperty(inst, name) ==
  IF name \in ClientResources THEN Accessor(inst, name) ELSE Returns(Undefined)

\* the fetch of a type up to its await: null without a request when the
\* property is missing or reading it throws
StartFetch(inst, type) ==
  LET resource == SdkProperty(inst, ResourceName(type)) IN
  IF resource.outcome = "throw" THEN Fulfilled(Null, NoRequest)
  ELSE IF resource.value = Undefined THEN Fulfilled(Null, NoRequest)
  ELSE Pending

\* ({ ...item, type })
WithType(item, type) == Element(item.id, item.name, type)

\* a slip: only the first item of a response is kept
FetchResult_FirstOnly(type, response) ==
  IF response = RequestFailed THEN Null
  ELSE LET items == ParseResponse(response).items IN
       IF Len(items) = 0 THEN Null
       ELSE [ type |-> type, label |-> type,
              elements |-> <<WithType(items[1], type)>> ]

\* the fetch of a type from its await on: the group of the response's items,
\* or null when there are none or the request failed
FetchResult(type, response) ==
  IF response = RequestFailed THEN Null
  ELSE LET items == ParseResponse(response).items IN
       IF Len(items) = 0 THEN Null
       ELSE [ type |-> type, label |-> type,
              elements |-> [k \in 1..Len(items) |-> WithType(items[k], type)] ]

\* results.forEach((g) => { if (g) groups.push(g); })
RECURSIVE Groups(_, _)
Groups(results, i) ==
  IF i > Len(results) THEN <<>>
  ELSE IF results[i].value = Null THEN Groups(results, i + 1)
  ELSE <<results[i].value>> \o Groups(results, i + 1)

\* groups.sort((a, b) => b.elements.length - a.elements.length): longest
\* first, groups of one length in the order they had
InsertGroup(g, sorted) ==
  LET k == Cardinality({i \in 1..Len(sorted) :
                          Len(sorted[i].elements) >= Len(g.elements)}) IN
  SubSeq(sorted, 1, k) \o <<g>> \o SubSeq(sorted, k + 1, Len(sorted))

RECURSIVE SortGroups(_)
SortGroups(groups) ==
  IF groups = <<>> THEN <<>>
  ELSE InsertGroup(groups[Len(groups)],
                   SortGroups(SubSeq(groups, 1, Len(groups) - 1)))

\* groups.flatMap((g) => g.elements)
RECURSIVE FlatMap(_)
FlatMap(groups) ==
  IF groups = <<>> THEN <<>>
  ELSE groups[1].elements \o FlatMap(Tail(groups))

\* renderSidebar(): the data-type of the buttons it writes
RenderSidebar(groups) ==
  <<"all">> \o [i \in 1..Len(groups) |-> groups[i].type]

\* a slip: the map shows every placed element
Visible_Unfiltered(placed, active) == placed

\* renderMap(): the placed elements it shows
Visible(placed, active) ==
  IF Truthy(active)
  THEN SelectSeq(placed, LAMBDA e : JString(e.type) = active)
  ELSE placed

\* renderMap(): the content it writes
RenderMap(placed, active) ==
  LET visible == Visible(placed, active) IN
  IF Len(visible) = 0 THEN [kind |-> "empty", view |-> "map", shown |-> <<>>]
  ELSE [kind |-> "map", view |-> "map", shown |-> visible]

\* renderList(): the content it writes
RenderList(allGroups_, active) ==
  LET groups == IF Truthy(active)
                THEN SelectSeq(allGroups_, LAMBDA g : JString(g.type) = active)
                ELSE allGroups_ IN
  IF Len(groups) = 0 THEN [kind |-> "empty", view |-> "list", shown |-> <<>>]
  ELSE [kind |-> "list", view |-> "list", shown |-> groups]

\* renderContent(): the content of #main-content, and the listener pair a
\* rendered map adds to window
RenderContent(view, active, placed, groups) ==
  /\ main' = IF view = "map" THEN RenderMap(placed, active)
             ELSE RenderList(groups, active)
  /\ main'.kind = "map" => windowListeners < MaxRenders
  /\ windowListeners' =
       IF main'.kind = "map" THEN windowListeners + 1 ELSE windowListeners

\* a slip: the upper limit is not applied
ZoomBy_NoUpperLimit(z, deltaY) ==
  LET delta == IF deltaY > 0 THEN 0 - ZoomStep ELSE ZoomStep
      raised == IF z + delta > ZoomMin THEN z + delta ELSE ZoomMin
  IN  raised

\* Math.min(2.5, Math.max(0.3, zoom + delta)), delta = e.deltaY > 0 ? -0.1 : 0.1
ZoomBy(z, deltaY) ==
  LET delta == IF deltaY > 0 THEN 0 - ZoomStep ELSE ZoomStep
      raised == IF z + delta > ZoomMin THEN z + delta ELSE ZoomMin
  IN  IF raised < ZoomMax THEN raised ELSE ZoomMax

\* the state main.ts renders the application in: a session authenticated with
\* saved credentials and the gateway built on it
SessionConnected ==
  /\ state = NewSession(OnlyWorldsClient("k1", "p1"),
                        [tag |-> "world", id |-> "w1"], "k1", "p1")
  /\ authChangeCallbacks = <<"sdk">>
  /\ localStorage =
       JSONStringify([apiKey |-> "k1", apiPin |-> "p1", timestamp |-> 1])
  /\ calls = EmptyBag
  /\ instance = [tag |-> "SDKManager", client |-> OnlyWorldsClient("k1", "p1")]
  /\ last = Step("initializeSDKManager", NoArg, "return", Null, Undefined,
              FALSE, <<>>, Undefined, FALSE)

\* the toast manager as main.ts leaves it: toastManager.init() on a page with
\* the container, then the toast of the connection
ToastConnected ==
  toastManager = Show(ToastManagerInit(NewToastManager, TRUE), "success")

InitApp ==
  /\ SessionConnected
  /\ PureIdle
  /\ AppInit
  /\ ToastConnected

\* every promise of Promise.all(fetches) is fulfilled
AllFulfilled(promises) ==
  \A i \in 1..Len(promises) : promises[i].tag = "fulfilled"

\* renderApp(container), up to the await of loadWorldData
RenderApp ==
  /\ loading = "unrendered"
  /\ GetWorld(state).tag = "world"
  /\ instance # Null
  /\ main' = [kind |-> "loading", view |-> currentView, shown |-> <<>>]
  /\ fetches' = [i \in 1..Len(ELEMENT_TYPES) |->
                   StartFetch(instance, ELEMENT_TYPES[i])]
  /\ loading' = "awaiting"
  /\ lastEvent' = "renderApp"
  /\ UNCHANGED <<cacheVars, activeType, currentView, panVars, zoom, typeList,
                 windowListeners>>

\* resource.list() of the i-th type settles with response, and the fetch
\* runs to its end.  The types the world holds nothing of are answered in
\* the order they were asked.
SettleFetch(i, response) ==
  /\ loading = "awaiting"
  /\ fetches[i] = Pending
  /\ response \in Answers(ELEMENT_TYPES[i])
  /\ \/ ELEMENT_TYPES[i] \in WorldTypes
     \/ \A j \in 1..(i - 1) :
          ELEMENT_TYPES[j] \notin WorldTypes => fetches[j] # Pending
  /\ fetches' =
       [fetches EXCEPT ![i] =
          Fulfilled(FetchResult(ELEMENT_TYPES[i], response), response)]
  /\ lastEvent' = "settle"
  /\ UNCHANGED <<cacheVars, activeType, currentView, panVars, zoom, loading,
                 typeList, main, windowListeners>>

\* loadWorldData() from `await Promise.all(fetches)` on
FinishLoad ==
  /\ loading = "awaiting"
  /\ AllFulfilled(fetches)
  /\ LET groups == SortGroups(Groups(fetches, 1)) IN
     /\ allGroups' = groups
     /\ allElements' = FlatMap(groups)
     /\ placedElements' = placeElements(FlatMap(groups))
     /\ panX' = CentreX
     /\ panY' = CentreY
     /\ typeList' = RenderSidebar(groups)
     /\ toastManager' = Show(toastManager, "success")
     /\ RenderContent(currentView, activeType,
                      placeElements(FlatMap(groups)), groups)
  /\ loading' = "done"
  /\ lastEvent' = "loaded"
  /\ UNCHANGED <<activeType, currentView, zoom, isPanning, panStartX,
                 panStartY, panOriginX, panOriginY, fetches>>

\* a click on #view-toggle
ToggleView ==
  /\ loading # "unrendered"
  /\ currentView' = IF currentView = "map" THEN "list" ELSE "map"
  /\ RenderContent(currentView', activeType, placedElements, allGroups)
  /\ lastEvent' = "toggle"
  /\ UNCHANGED <<cacheVars, activeType, panVars, zoom, loading, fetches,
                 typeList>>

\* a click on the button of #type-list with data-type = type
ClickType(k) ==
  /\ k \in 1..Len(typeList)
  /\ activeType' = IF typeList[k] = "all" THEN Null ELSE JString(typeList[k])
  /\ typeList' = RenderSidebar(allGroups)
  /\ RenderContent(currentView, activeType', placedElements, allGroups)
  /\ lastEvent' = "filter"
  /\ UNCHANGED <<cacheVars, currentView, panVars, zoom, loading, fetches>>

\* a wheel event on #map-container
Wheel(deltaY) ==
  /\ main.kind = "map"
  /\ zoom' = ZoomBy(zoom, deltaY)
  /\ lastEvent' = "wheel"
  /\ UNCHANGED <<cacheVars, activeType, currentView, panVars, loading,
                 fetches, typeList, main, windowListeners>>

\* a slip: a press on a marker starts tracking too
MouseDown_AnyTarget(onMarker, e) ==
  /\ main.kind = "map"
  /\ isPanning' = TRUE
  /\ panStartX' = e.clientX
  /\ panStartY' = e.clientY
  /\ panOriginX' = panX
  /\ panOriginY' = panY
  /\ lastEvent' = "mousedown"
  /\ UNCHANGED <<cacheVars, activeType, currentView, panX, panY, zoom,
                 loading, fetches, typeList, main, windowListeners>>

\* a mousedown event on #map-container, on a marker or not
MouseDown(onMarker, e) ==
  /\ main.kind = "map"
  /\ IF onMarker
     THEN UNCHANGED <<isPanning, panStartX, panStartY, panOriginX, panOriginY>>
     ELSE /\ isPanning' = TRUE
          /\ panStartX' = e.clientX
          /\ panStartY' = e.clientY
          /\ panOriginX' = panX
          /\ panOriginY' = panY
  /\ lastEvent' = "mousedown"
  /\ UNCHANGED <<cacheVars, activeType, currentView, panX, panY, zoom,
                 loading, fetches, typeList, main, windowListeners>>

\* a mousemove event on window: every listener a rendered map added runs,
\* and each assigns the same panX, panY
MouseMove(e) ==
  /\ windowListeners > 0
  /\ IF isPanning
     THEN /\ panX' = panOriginX + (e.clientX - panStartX)
          /\ panY' = panOriginY + (e.clientY - panStartY)
          /\ InDragRange(panX', panY')
     ELSE UNCHANGED <<panX, panY>>
  /\ lastEvent' = "mousemove"
  /\ UNCHANGED <<cacheVars, activeType, currentView, zoom, isPanning,
                 panStartX, panStartY, panOriginX, panOriginY, loading,
                 fetches, typeList, main, windowListeners>>

\* a mouseup event on window
MouseUp ==
  /\ windowListeners > 0
  /\ isPanning' = FALSE
  /\ lastEvent' = "mouseup"
  /\ UNCHANGED <<cacheVars, activeType, currentView, panX, panY, zoom,
                 panStartX, panStartY, panOriginX, panOriginY, loading,
                 fetches, typeList, main, windowListeners>>

\* detail overlays opened in one page
MaxDetails == 2

\* e.key of a keydown event
KeyNames == {"Escape", "Enter"}

\* the data-id of the markers, or of the cards, of #main-content
ShownIds(content) ==
  IF content.kind = "map"
  THEN [k \in 1..Len(content.shown) |-> content.shown[k].id]
  ELSE IF content.kind = "list"
  THEN [k \in 1..Len(FlatMap(content.shown)) |-> FlatMap(content.shown)[k].id]
  ELSE <<>>

\* allElements.find((e) => e.id === id)
FindElement(elements, id) ==
  LET found == {k \in 1..Len(elements) : elements[k].id = id} IN
  IF found = {} THEN Undefined
  ELSE elements[CHOOSE k \in found : \A j \in found : k <= j]

\* the overlay showDetail(el) appends to document.body
DetailOverlay(el) == [tag |-> "overlay", el |-> el]

\* the keydown listeners left on document after each of them has run on an
\* Escape: every one removes itself
EscapeHandlers(handlers) == 0

\* what the marker click, the card click and the overlay's handlers leave alone
detailFrame ==
  << cacheVars, activeType, currentView, panVars, zoom, loading, fetches,
     typeList, main, windowListeners >>

\* a click on the k-th marker of the map or the k-th card of the list:
\* showDetail(el) for the element found by its id
ClickShown(k) ==
  /\ k \in 1..Len(ShownIds(main))
  /\ LET el == FindElement(allElements, ShownIds(main)[k]) IN
     IF el = Undefined THEN UNCHANGED detailVars
     ELSE /\ escHandlers < MaxDetails
          /\ overlay' = DetailOverlay(el)
          /\ escHandlers' = escHandlers + 1
  /\ lastEvent' = "click"
  /\ UNCHANGED detailFrame

\* a click on .bg-detail-close
ClickClose ==
  /\ overlay # Null
  /\ overlay' = Null
  /\ lastEvent' = "close"
  /\ UNCHANGED <<escHandlers, detailFrame>>

\* a click on the overlay, on its backdrop or inside the panel
ClickOverlay(onBackdrop) ==
  /\ overlay # Null
  /\ overlay' = IF onBackdrop THEN Null ELSE overlay
  /\ lastEvent' = "backdrop"
  /\ UNCHANGED <<escHandlers, detailFrame>>

\* a keydown event on document: every listener showDetail added runs; on
\* Escape each removes its overlay, the open one among them, and itself
KeyDown(key) ==
  /\ IF key = "Escape" /\ escHandlers > 0
     THEN /\ overlay' = Null
          /\ escHandlers' = EscapeHandlers(escHandlers)
     ELSE UNCHANGED detailVars
  /\ lastEvent' = "keydown"
  /\ UNCHANGED detailFrame

\* what the handlers of app.ts other than loadWorldData leave alone
shellFrame == <<vars, pureVars, detailVars, toastManager>>

NextApp ==
  \/ RenderApp /\ UNCHANGED shellFrame
  \/ \E i \in 1..Len(ELEMENT_TYPES) :
       \E response \in Answers(ELEMENT_TYPES[i]) :
         SettleFetch(i, response) /\ UNCHANGED shellFrame
  \/ FinishLoad /\ UNCHANGED <<vars, pureVars, detailVars>>
  \/ ToggleView /\ UNCHANGED shellFrame
  \/ \E k \in 1..Len(typeList) : ClickType(k) /\ UNCHANGED shellFrame
  \/ \E deltaY \in Deltas : Wheel(deltaY) /\ UNCHANGED shellFrame
  \/ \E onMarker \in BOOLEAN : \E e \in Pointers :
       MouseDown(onMarker, e) /\ UNCHANGED shellFrame
  \/ \E e \in Pointers : MouseMove(e) /\ UNCHANGED shellFrame
  \/ MouseUp /\ UNCHANGED shellFrame

SpecApp == InitApp /\ [][NextApp]_<<vars, restVars>>

\* the page with the detail overlay: every handler but the wheel's
NextDetail ==
  \/ RenderApp /\ UNCHANGED shellFrame
  \/ \E i \in 1..Len(ELEMENT_TYPES) :
       \E response \in Answers(ELEMENT_TYPES[i]) :
         SettleFetch(i, response) /\ UNCHANGED shellFrame
  \/ FinishLoad /\ UNCHANGED <<vars, pureVars, detailVars>>
  \/ ToggleView /\ UNCHANGED shellFrame
  \/ \E k \in 1..Len(typeList) : ClickType(k) /\ UNCHANGED shellFrame
  \/ \E onMarker \in BOOLEAN : \E e \in Pointers :
       MouseDown(onMarker, e) /\ UNCHANGED shellFrame
  \/ \E e \in Pointers : MouseMove(e) /\ UNCHANGED shellFrame
  \/ MouseUp /\ UNCHANGED shellFrame
  \/ \E k \in 1..Len(ShownIds(main)) :
       ClickShown(k) /\ UNCHANGED <<vars, pureVars, toastManager>>
  \/ ClickClose /\ UNCHANGED <<vars, pureVars, toastManager>>
  \/ \E onBackdrop \in BOOLEAN :
       ClickOverlay(onBackdrop) /\ UNCHANGED <<vars, pureVars, toastManager>>
  \/ \E key \in KeyNames : KeyDown(key) /\ UNCHANGED <<vars, pureVars, toastManager>>

SpecDetail == InitApp /\ [][NextDetail]_<<vars, restVars>>

(***************************************************************************)
(* Properties of the normalizer (under SpecNormalizer).                    *)
(***************************************************************************)
\* the response is an object containing a results sequence
HasResultsSequence(raw) == raw.tag = "object" /\ IsArray(GetProp(raw, "results"))

\* the property is there with a value
Present(raw, key) == GetProp(raw, key).tag \notin {"null", "undefined"}

\* the latest application is of fn
Normalized(fn) == output # NotApplied /\ output.fn = fn

\* C11: for a response that is an object containing a results sequence,
\* parseListResponse returns items = results, count = raw.count when it is
\* present (also when it is 0) and the length of results otherwise, hasNext
\* true iff next is present and hasPrevious true iff previous is present.
C11_PaginatedResponse ==
  (Normalized("parseListResponse") /\ HasResultsSequence(input)) =>
    /\ output.value.items = GetProp(input, "results")
    /\ output.value.count =
         IF Present(input, "count") THEN GetProp(input, "count")
         ELSE JNumber(Len(GetProp(input, "results").items))
    /\ output.value.hasNext <=> Present(input, "next")
    /\ output.value.hasPrevious <=> Present(input, "previous")

\* the response is an object with exactly one property, whose value is a
\* sequence
SingleSequenceProperty(raw) ==
  raw.tag = "object" /\ Len(raw.props) = 1 /\ IsArray(raw.props[1].value)

\* the items of the latest application
ItemsReturned ==
  IF output.fn = "parseListResponse" THEN output.value.items ELSE output.value

\* C12: for a response that is neither a sequence nor an object with a results
\* sequence, the normalizer returns the sequence of the single property when
\* the response is an object with exactly one property whose value is a
\* sequence, and an empty result (no items, count 0) for every other response.
C12_SingleKeyWrapper ==
  (output # NotApplied /\ ~IsArray(input) /\ ~HasResultsSequence(input)) =>
    IF SingleSequenceProperty(input)
    THEN ItemsReturned = input.props[1].value
    ELSE /\ ItemsReturned = JArray(<<>>)
         /\ output.fn = "parseListResponse" => output.value.count = JNumber(0)

(***************************************************************************)
(* Properties of the layout (under SpecLayout).                            *)
(***************************************************************************)
\* placeElements has been applied to the input
Placed == output # NotApplied /\ output.fn = "placeElements"

\* the element a placed element was made from
Unplaced(p) == Element(p.id, p.name, p.type)

\* how many entries of the sequence satisfy Test
Count(seq, Test(_)) == Cardinality({i \in 1..Len(seq) : Test(seq[i])})

\* the places of the satellites in the output
Satellites == {j \in 1..Len(output.value) : output.value[j].type # "location"}

\* the points placed before the j-th
PlacedBefore(j) == SubSeq(output.value, 1, j - 1)

\* the candidate of attempt k for a placed satellite
Candidate(p, k) ==
  [ x |-> margin + ModPlus(hashString(p.id \o p.name), k * 197, usableW),
    y |-> margin + ModPlus(hashString(p.name \o CodeUnits[p.type]), k * 131,
                           usableH) ]

\* (x, y) is within 60 units of a point placed before the j-th
Collides(j, x, y) ==
  \E i \in 1..(j - 1) : TooClose(output.value[i], x, y)

\* C13: placeElements returns one placed element for each input element: the
\* output is as long as the input and holds each element (id, name, type) as
\* many times as the input does.
C13_EveryElementPlaced ==
  Placed =>
    /\ Len(output.value) = Len(input)
    /\ \A e \in ElementPool :
         Count(output.value, LAMBDA p : Unplaced(p) = e)
           = Count(input, LAMBDA el : el = e)

\* C13 happens: six elements were placed, two of them on the same point
C13_Witness ==
  /\ Placed
  /\ Len(input) = 6
  /\ \E i, j \in 1..Len(output.value) :
       /\ i < j
       /\ output.value[i].x = output.value[j].x
       /\ output.value[i].y = output.value[j].y

RECURSIVE Compared(_, _)
Compared(checks, n) ==
  IF n = 0 THEN 0 ELSE checks[n].compared + Compared(checks, n - 1)

\* C16: for every satellite placeElements makes at least one and at most 5
\* collision checks; each check compares its candidate with the points placed
\* before and finds a collision exactly when one of them is within 60 units;
\* every check but the last found a collision; the comparisons number at most
\* 5 times the points placed before; the satellite is placed on the last
\* candidate checked if that check found no collision, and on the candidate of
\* attempt 4, unchecked, after five checks with a collision.
C16_AtMostFiveChecks ==
  Placed =>
    \A j \in Satellites :
      LET checks == output.checks[j]
          n == Len(checks)
          p == output.value[j]
      IN  /\ n \in 1..5
          /\ \A c \in 1..n :
               /\ checks[c].compared <= j - 1
               /\ checks[c].tooClose <=> Collides(j, checks[c].x, checks[c].y)
               /\ c < n => checks[c].tooClose
          /\ Compared(checks, n) <= 5 * (j - 1)
          /\ ~checks[n].tooClose => (p.x = checks[n].x /\ p.y = checks[n].y)
          /\ checks[n].tooClose =>
               (n = 5 /\ p.x = Candidate(p, 4).x /\ p.y = Candidate(p, 4).y)

\* C16 happens: five checks found a collision and the satellite was placed on
\* a candidate that still collides
C16_Witness ==
  /\ Placed
  /\ \E j \in Satellites :
       /\ Len(output.checks[j]) = 5
       /\ output.checks[j][5].tooClose
       /\ Collides(j, output.value[j].x, output.value[j].y)

(***************************************************************************)
(* Properties of the application shell (under SpecApp).                    *)
(***************************************************************************)
ZoomInRange == zoom \in ZoomMin..ZoomMax

\* what one wheel event with deltaY makes of zoom z: one step down for a
\* scroll down, one step up for a scroll up, or the limit the step would pass
OneStep(z, deltaY, after) ==
  /\ deltaY > 0 =>
       after = (IF z - ZoomStep >= ZoomMin THEN z - ZoomStep ELSE ZoomMin)
  /\ deltaY < 0 =>
       after = (IF z + ZoomStep <= ZoomMax THEN z + ZoomStep ELSE ZoomMax)
  /\ deltaY = 0 =>
       \/ after \in {z - ZoomStep, z + ZoomStep}
       \/ after = z /\ z \in {ZoomMin, ZoomMax}

\* C17: whatever wheel events, pans, renderings, filter changes and view
\* toggles have happened, zoom is within [0.3, 2.5]; a wheel event moves zoom
\* by one step of 0.1 in the direction of the scroll, or to the limit that the
\* step would pass; nothing but a wheel event changes zoom.
C17_ZoomClamped ==
  /\ []ZoomInRange
  /\ [][ /\ \A deltaY \in Deltas :
              Wheel(deltaY) => OneStep(zoom, deltaY, zoom')
         /\ zoom' # zoom => \E deltaY \in Deltas : Wheel(deltaY)
       ]_<<vars, restVars>>

\* C17 happens: a wheel event has left zoom on its lower limit, on a map that
\* was dragged and filtered
C17_Witness ==
  /\ lastEvent = "wheel"
  /\ zoom = ZoomMin
  /\ panX # CentreX
  /\ activeType # Null
  /\ windowListeners > 1

\* the elements #main-content shows
ShownElements ==
  IF main.kind = "map"
  THEN [k \in 1..Len(main.shown) |-> Unplaced(main.shown[k])]
  ELSE IF main.kind = "list" THEN FlatMap(main.shown)
  ELSE <<>>

\* the elements of the cache the filter lets through
Filtered ==
  SelectSeq(allElements,
            LAMBDA e : activeType = Null \/ activeType = JString(e.type))

\* the same elements, each as often, in any order
SameElements(a, b) ==
  /\ Len(a) = Len(b)
  /\ \A e \in {a[k] : k \in 1..Len(a)} \cup {b[k] : k \in 1..Len(b)} :
       Cardinality({k \in 1..Len(a) : a[k] = e})
         = Cardinality({k \in 1..Len(b) : b[k] = e})

\* C18: a click on the view toggle leaves activeType as it is; activeType
\* changes only by a click on a type button, which sets it to the button's
\* type (to null for "all"); and once the page has rendered a view, it shows
\* the current view with exactly the cached elements of the active type
\* (all of them when the filter is null).
C18_FilterSurvivesToggle ==
  /\ [](main.kind \in {"map", "list", "empty"} =>
          /\ main.view = currentView
          /\ SameElements(ShownElements, Filtered))
  /\ [][ /\ ToggleView => activeType' = activeType
         /\ activeType' # activeType => lastEvent' = "filter"
         /\ \A k \in 1..Len(typeList) :
              ClickType(k) =>
                activeType' = (IF typeList[k] = "all" THEN Null
                               ELSE JString(typeList[k]))
       ]_<<vars, restVars>>

\* C18 happens: a type was chosen and the view toggled afterwards, back to a
\* map that shows only this type
C18_Witness ==
  /\ lastEvent = "toggle"
  /\ activeType = JString("character")
  /\ main.kind = "map"
  /\ Len(main.shown) < Len(placedElements)
  /\ windowListeners = 3

\* the elements of a type, in the order of the list
OfType(elements, type) == SelectSeq(elements, LAMBDA e : e.type = type)

\* what the i-th type has to contribute: nothing when its request failed or
\* was not made, else every item of the answer tagged with the type
Contribution(i) ==
  LET type == ELEMENT_TYPES[i]
      response == fetches[i].response IN
  IF response \in {RequestFailed, NoRequest} THEN <<>>
  ELSE [k \in 1..Len(response.items) |->
          Element(response.items[k].id, response.items[k].name, type)]

\* C19: the cache, the layout and the sidebar stay empty and no view is
\* rendered with elements until every request has settled; a request that
\* settles, failed or not, leaves the other requests as they are and the
\* reload waiting; after the reload each type whose request failed contributes no
\* element and each type whose request succeeded contributes all its items,
\* tagged with the type, to the cache and to the layout.
C19_ReloadWaitsForAll ==
  /\ [](loading # "done" =>
          /\ allGroups = <<>> /\ allElements = <<>> /\ placedElements = <<>>
          /\ typeList = <<>>
          /\ main.kind \notin {"map", "list"})
  /\ [](loading = "done" =>
          /\ AllFulfilled(fetches)
          /\ \A i \in 1..Len(ELEMENT_TYPES) :
               /\ OfType(allElements, ELEMENT_TYPES[i]) = Contribution(i)
               /\ SameElements(
                    [k \in 1..Len(OfType(placedElements, ELEMENT_TYPES[i])) |->
                       Unplaced(OfType(placedElements, ELEMENT_TYPES[i])[k])],
                    Contribution(i)))
  /\ [][ /\ cacheVars' # cacheVars => AllFulfilled(fetches)
         /\ \A i \in 1..Len(ELEMENT_TYPES) :
              \A response \in Answers(ELEMENT_TYPES[i]) :
                SettleFetch(i, response) =>
                  /\ loading' = "awaiting"
                  /\ \A j \in 1..Len(ELEMENT_TYPES) :
                       j # i => fetches'[j] = fetches[j]
       ]_<<vars, restVars>>

\* C19 happens: the reload ended with the characters' request failed and the
\* location of the other request cached, placed and shown
C19_Witness ==
  /\ loading = "done"
  /\ \E i \in 1..Len(ELEMENT_TYPES) : fetches[i].response = RequestFailed
  /\ Len(allElements) = 1
  /\ allElements[1].type = "location"
  /\ main.kind = "map"

(***************************************************************************)
(* Notification of session transitions (under Spec).                       *)
(***************************************************************************)
\* C20: a step that takes the session from authenticated to not
\* authenticated, or back, calls every registered listener with the new
\* value of isAuthenticated.
C20_TransitionsNotified ==
  [][ IsAuthenticated(state') # IsAuthenticated(state) =>
        NotifiedAll(IsAuthenticated(state))'
    ]_<<vars, restVars>>

(***************************************************************************)
(* Properties of the toast manager (under SpecToast).                      *)
(***************************************************************************)
\* the ids of the queued toasts
QueueIds == ToastIds(toastManager.toasts)

\* C30: the queue never holds more than 3 toasts; show() on a manager without
\* a container leaves the queue as it is, and with a container appends the new
\* toast, dropping the oldest one when the queue held 3; a toast whose dismiss
\* timer fires is out of the queue after that step; and every queued toast
\* leaves the queue at some later time.
C30_ToastQueue ==
  /\ [](Len(toastManager.toasts) <= 3)
  /\ [][ /\ \A type \in ToastTypes :
              CallShow(type) =>
                toastManager'.toasts =
                  (IF toastManager.container = Null THEN toastManager.toasts
                   ELSE LET new == Toast(toastManager.count + 1, type) IN
                        IF Len(toastManager.toasts) = 3
                        THEN Append(Tail(toastManager.toasts), new)
                        ELSE Append(toastManager.toasts, new))
         /\ \A id \in 1..MaxShown : DismissFires(id) => id \notin QueueIds'
       ]_<<vars, restVars>>
  /\ \A id \in 1..MaxShown : (id \in QueueIds) ~> (id \notin QueueIds)

\* C30 happens: a fourth toast was shown while three were queued; the first is
\* out of the queue and its element fades
C30_Witness ==
  /\ toastManager.count = 4
  /\ Len(toastManager.toasts) = 3
  /\ toastManager.toasts[1].id = 2
  /\ 1 \in toastManager.fadeTimers
  /\ 1 \in toastManager.dismissTimers

(***************************************************************************)
(* Properties of the reload, the listeners and the overlay (C21, C24 under *)
(* SpecApp; C23, C25 under SpecDetail) and of the retry loop (C22, under   *)
(* SpecLayout).                                                            *)
(***************************************************************************)
\* C21: once renderApp has started the reload, a list request was issued for
\* each of the 18 types of ELEMENT_TYPES: no fetch ended without a request.
C21_OneRequestPerType ==
  loading # "unrendered" =>
    /\ Len(fetches) = 18
    /\ \A i \in 1..Len(fetches) :
         \/ fetches[i] = Pending
         \/ fetches[i].tag = "fulfilled" /\ fetches[i].response # NoRequest

\* C22: for every satellite, a check that found a collision is followed by a
\* check of another candidate, the n-th retry being the candidate of the seeds
\* h + 197 n and h2 + 131 n; and a satellite whose first candidate collides
\* with nothing is placed on it.
C22_RetryPerturbsSeed ==
  Placed =>
    \A j \in Satellites :
      LET checks == output.checks[j]
          p == output.value[j]
      IN  /\ \A c \in 1..(Len(checks) - 1) :
               /\ <<checks[c + 1].x, checks[c + 1].y>> # <<checks[c].x, checks[c].y>>
               /\ checks[c + 1].x = Candidate(p, c).x
               /\ checks[c + 1].y = Candidate(p, c).y
          /\ ~Collides(j, Candidate(p, 0).x, Candidate(p, 0).y) =>
               (p.x = Candidate(p, 0).x /\ p.y = Candidate(p, 0).y)

\* C23: tracking starts only by a press on the map container off the markers,
\* which records the pointer and the pan; a release ends it, and there is none
\* before a map was rendered; a move while tracking puts pan at the recorded
\* pan plus the pointer's displacement from the recorded pointer; a move
\* while not tracking, a press on a marker and a click on a marker leave pan
\* and the tracking as they are; the recorded values change only by such a
\* press, and pan only by a tracked move or the centring of the reload.
C23_PanTracking ==
  /\ [](windowListeners = 0 => ~isPanning)
  /\ [][ /\ (isPanning' /\ ~isPanning) => \E e \in Pointers : MouseDown(FALSE, e)
         /\ MouseUp => ~isPanning'
         /\ \A e \in Pointers :
              /\ MouseDown(FALSE, e) =>
                   /\ isPanning'
                   /\ <<panStartX', panStartY'>> = <<e.clientX, e.clientY>>
                   /\ <<panOriginX', panOriginY'>> = <<panX, panY>>
                   /\ UNCHANGED <<panX, panY>>
              /\ MouseDown(TRUE, e) => UNCHANGED panVars
              /\ MouseMove(e) =>
                   IF isPanning
                   THEN /\ panX' = panOriginX + (e.clientX - panStartX)
                        /\ panY' = panOriginY + (e.clientY - panStartY)
                   ELSE UNCHANGED panVars
         /\ \A k \in 1..Len(ShownIds(main)) : ClickShown(k) => UNCHANGED panVars
         /\ <<panStartX', panStartY', panOriginX', panOriginY'>>
              # <<panStartX, panStartY, panOriginX, panOriginY>>
              => \E e \in Pointers : MouseDown(FALSE, e)
         /\ <<panX', panY'>> # <<panX, panY>> =>
              \/ isPanning /\ \E e \in Pointers : MouseMove(e)
              \/ FinishLoad
       ]_<<vars, restVars>>

\* C23 happens: a marker was clicked, and a later drag moved the map
C23_Witness ==
  /\ lastEvent = "mousemove"
  /\ isPanning
  /\ panX = panOriginX + 10
  /\ panX # CentreX
  /\ overlay # Null

\* C24: however often the map was rendered, the window holds at most one
\* mousemove and one mouseup listener of the map.
C24_NoListenerAccumulation == windowListeners <= 1

\* C25: the document holds no more Escape listeners of showDetail than there
\* are open overlays: none when no overlay is open, one when one is.
C25_EscapeListenerReleased ==
  escHandlers <= (IF overlay = Null THEN 0 ELSE 1)

(***************************************************************************)
(* The gateway and the session (C26, under SpecGateway).                   *)
(***************************************************************************)
\* C26: once the gateway is built, isReady() is true exactly when the session
\* is authenticated, and a ready gateway holds the session's client.
C26_GatewayFollowsSession ==
  instance # Null =>
    /\ IsReady(instance) <=> IsAuthenticated(state)
    /\ IsReady(instance) => SDKGetClient(instance).value = GetClient(state)

(***************************************************************************)
(* Overlapping calls (C27, under SpecOverlap) and the argument check (C28, *)
(* under Spec).                                                            *)
(***************************************************************************)
\* the stored item holds these credentials
Persisted(credentials) ==
  localStorage \in
    { JSONStringify([ apiKey |-> credentials.apiKey,
                      apiPin |-> credentials.apiPin, timestamp |-> t ]) :
        t \in Timestamps }

\* C27: when no authenticate() or tryAutoAuth() call is suspended and the
\* session is authenticated, the stored item holds the session's credentials,
\* and the session's client was made from them and comes with a world.
C27_OverlappingCalls ==
  (calls = EmptyBag /\ IsAuthenticated(state)) =>
    /\ Persisted(state.credentials)
    /\ state.client =
         OnlyWorldsClient(state.credentials.apiKey, state.credentials.apiPin)
    /\ state.world \in Worlds

\* C28: authenticate() with an empty key or an empty pin throws
\* INVALID_CREDENTIALS without a request and without calling a listener, and
\* leaves the session, the stored item, the listeners, the gateway and the
\* suspended calls as they are; an authenticate() that throws with both
\* arguments given has cleared the session.
C28_EmptyCredentialsChangeNothing ==
  [][ /\ \A apiKey \in Keys, apiPin \in Pins :
           ((apiKey = "" \/ apiPin = "") /\ Authenticate(apiKey, apiPin)) =>
             /\ UNCHANGED <<state, localStorage, authChangeCallbacks, instance,
                            calls>>
             /\ last'.outcome = "throw"
             /\ last'.error.code = "INVALID_CREDENTIALS"
             /\ last'.notified = <<>>
             /\ ~last'.remote
      /\ ( /\ last'.op = "authenticate"
           /\ last'.outcome = "throw"
           /\ last'.arg.apiKey # ""
           /\ last'.arg.apiPin # "" ) => state' = ClearAuth
    ]_<<vars, restVars>>

\* C28 happens: authenticate() with an empty pin threw on an authenticated
\* session with a listener and stored credentials, and the session is still
\* authenticated
C28_Witness ==
  /\ last.op = "authenticate"
  /\ last.outcome = "throw"
  /\ last.arg.apiKey = "k1"
  /\ last.arg.apiPin = ""
  /\ IsAuthenticated(state)
  /\ Len(authChangeCallbacks) > 0
  /\ localStorage \in SavedItems

(***************************************************************************)
(* Ranges of the hash and of the satellites' coordinates (C29, under       *)
(* SpecMargins).                                                           *)
(***************************************************************************)
\* 0 <= h <= 2^31
HashInRange(h) ==
  /\ h.hi \in 0..32768
  /\ h.lo \in 0..65535
  /\ h.hi = 32768 => h.lo = 0

\* 80 <= x < 2320 and 80 <= y < 1520
InsideMargins(x, y) == x \in 80..2319 /\ y \in 80..1519

\* the masked value of the hash loop has its sign bit set
SignBitSet(str) == HashLoop(str, 1, Word(0, 5381)).hi >= 32768

\* C29: the hashes of id + name and of name + type of every satellite are
\* integers from 0 to 2^31, and every candidate checked for a satellite, the
\* place it is given, and its candidates of attempts 0..4 satisfy
\* 80 <= x < 2320 and 80 <= y < 1520.
C29_InsideMargins ==
  Placed =>
    \A j \in Satellites :
      LET p == output.value[j] IN
      /\ HashInRange(hashString(p.id \o p.name))
      /\ HashInRange(hashString(p.name \o CodeUnits[p.type]))
      /\ InsideMargins(p.x, p.y)
      /\ \A i \in 1..Len(output.checks[j]) :
           InsideMargins(output.checks[j][i].x, output.checks[j][i].y)
      /\ \A k \in 0..4 : InsideMargins(Candidate(p, k).x, Candidate(p, k).y)

\* C29 happens: a satellite whose two masked hashes are negative went through
\* all five checks and was placed off its first candidate
C29_Witness ==
  /\ Placed
  /\ \E j \in Satellites :
       LET p == output.value[j] IN
       /\ SignBitSet(p.id \o p.name)
       /\ SignBitSet(p.name \o CodeUnits[p.type])
       /\ Len(output.checks[j]) = 5
       /\ p.x # Candidate(p, 0).x
       /\ p.y # Candidate(p, 0).y

====
